---- MODULE Spec2Model ----
(***************************************************************************)
(* Verification model of the habit-tracker backend: the streak engine of   *)
(* habits-service (habit scheduling, confirmation, the deadline sweeper)   *)
(* and the session core of user-service (sessions in the cache, single-use *)
(* tokens).  Every handler is a sequence of steps, one per store           *)
(* operation; the variable `serial` selects whether handlers run one at a  *)
(* time (HabitSpec, AuthSpec) or interleaved (HabitConcSpec).              *)
(***************************************************************************)
EXTENDS Integers, Sequences, FiniteSets, TLC

VARIABLES
    serial,         \* TRUE: one handler at a time; FALSE: steps interleave
    now,            \* the clock, in seconds since the epoch (time.Now().UTC())
    habits,         \* table habits: habit id -> row
    confirmations,  \* table habit_confirmations: set of rows
    wk,             \* habits-service request workers: position and locals
    sw,             \* the deadline checker (cron job): position and locals
    hist,           \* observations of the run used by the properties
    users,          \* table users: user id -> row
    sessions,       \* cache keys session:<id>: session id -> session
    userSessions,   \* cache sets user:<id>:sessions: user id -> session ids
    sessionRows,    \* table sessions (the audit mirror): set of session ids
    verificationTokens,   \* cache keys verification:token:<t>
    passwordResetTokens,  \* cache keys password_reset:token:<t>
    tokens,         \* the signed tokens issued so far
    aw,             \* user-service request workers: position and locals
    ahist,          \* observations of the run used by the properties
    gw              \* api-gateway: the visitors of the rate limiter

authVars == <<users, sessions, userSessions, sessionRows, verificationTokens,
              passwordResetTokens, tokens, aw, ahist, gw>>
habitVars == <<habits, confirmations, wk, sw, hist>>
vars == <<serial, now, habitVars, authVars>>

----------------------------------------------------------------------------
(* Bounds of the model *)

\* days the clock runs on after the first
MaxDays == 2

\* half minutes the clock of the gateway runs on
GatewayTicks == 12

(* Program constants *)

Hour == 3600
Day == 24 * Hour

\* the clock starts on Sunday 1970-01-04 00:00:00 UTC
ClockStart == 3 * Day

HabitIDs == {1}

Workers == {"w1", "w2"}
UserIDs == {"u1", "u2"}
\* the users that own habits
Owners == {"u1"}

\* IANA zones by their UTC offset in seconds: UTC and Asia/Kolkata (+05:30)
Zones == {0, 19800}

None == <<>>
Some(v) == <<v>>
IsSome(o) == o # <<>>
Val(o) == o[1]

----------------------------------------------------------------------------
(* time.Time arithmetic on instants counted in seconds *)

\* Year(), Month(), Day() of an instant (proleptic Gregorian calendar)
CivilFromDays(z0) ==
    LET z == z0 + 719468
        era == z \div 146097
        doe == z - era * 146097
        yoe == (doe - doe \div 1460 + doe \div 36524 - doe \div 146096) \div 365
        doy == doe - (365 * yoe + yoe \div 4 - yoe \div 100)
        mp == (5 * doy + 2) \div 153
        d == doy - (153 * mp + 2) \div 5 + 1
        m == IF mp < 10 THEN mp + 3 ELSE mp - 9
        y == yoe + era * 400 + (IF m <= 2 THEN 1 ELSE 0)
    IN <<y, m, d>>

DayNumber(t) == t \div Day

\* t.Format("2006-01-02")
FormatDate(t) == CivilFromDays(DayNumber(t))

\* t.Weekday(): 0 = Sunday; day 0 of the epoch is a Thursday (4)
Weekday(t) == (DayNumber(t) + 4) % 7

\* t.AddDate(0, 0, n)
AddDate(t, n) == t + n * Day

\* time.Date(t.Year(), t.Month(), t.Day(), 23, 59, 59, 0, time.UTC)
EndOfDay(t) == DayNumber(t) * Day + 23 * Hour + 59 * 60 + 59

\* time.Date(t.Year(), t.Month(), t.Day(), 0, 0, 0, 0, time.UTC)
StartOfDay(t) == DayNumber(t) * Day

\* int32(offset / 3600): Go's integer division truncates toward zero
ConvertTimezoneToOffset(zone) ==
    IF zone >= 0 THEN zone \div Hour ELSE -((-zone) \div Hour)

----------------------------------------------------------------------------
(* entity.Habit *)

IsInterval(h) == h.scheduleType = "interval"
IsWeekly(h) == h.scheduleType = "weekly"

GetLocalTime(h, utcTime) == utcTime + h.tzOffset * Hour
GetLocalDate(h, utcTime) == FormatDate(GetLocalTime(h, utcTime))
GetCurrentLocalDate(h) == GetLocalDate(h, now)

\* range over weeklyDays
InDays(days, wd) == \E i \in 1..Len(days) : days[i] = wd

RECURSIVE FindAhead(_, _, _)
FindAhead(fromTime, weeklyDays, daysAhead) ==
    IF daysAhead > 7 THEN AddDate(fromTime, 7)
    ELSE IF InDays(weeklyDays, (Weekday(fromTime) + daysAhead) % 7)
         THEN AddDate(fromTime, daysAhead)
         ELSE FindAhead(fromTime, weeklyDays, daysAhead + 1)

findThisOrNextWeeklyDeadline(fromTime, weeklyDays) == FindAhead(fromTime, weeklyDays, 0)
findNextWeeklyDeadline(fromTime, weeklyDays) == FindAhead(fromTime, weeklyDays, 1)

CalculateInitialDeadline(h, fromTime) ==
    LET localTime == GetLocalTime(h, fromTime)
        deadlineLocalDate ==
            IF IsInterval(h) THEN localTime
            ELSE IF InDays(h.weeklyDays, Weekday(localTime)) THEN localTime
            ELSE findNextWeeklyDeadline(localTime, h.weeklyDays)
    IN EndOfDay(deadlineLocalDate) - h.tzOffset * Hour

CalculateNextDeadline(h, fromTime) ==
    LET localTime == GetLocalTime(h, fromTime)
        nextLocalDeadline ==
            IF IsInterval(h) THEN AddDate(localTime, Val(h.intervalDays))
            ELSE findNextWeeklyDeadline(localTime, h.weeklyDays)
    IN EndOfDay(nextLocalDeadline) - h.tzOffset * Hour

----------------------------------------------------------------------------
(* The stores of habits-service *)

\* habits-service request inputs
CreateInputs ==
    { [scheduleType |-> "interval", intervalDays |-> Some(1), weeklyDays |-> <<>>],
      [scheduleType |-> "interval", intervalDays |-> Some(2), weeklyDays |-> <<>>],
      [scheduleType |-> "weekly", intervalDays |-> None, weeklyDays |-> <<1, 3>>],
      [scheduleType |-> "interval", intervalDays |-> Some(0), weeklyDays |-> <<>>],
      [scheduleType |-> "weekly", intervalDays |-> None, weeklyDays |-> <<>>],
      [scheduleType |-> "interval", intervalDays |-> Some(1), weeklyDays |-> <<1, 3>>] }

UpdateInputs ==
    { [name |-> None, scheduleType |-> None, intervalDays |-> Some(2), weeklyDays |-> <<>>,
       timezone |-> None],
      [name |-> None, scheduleType |-> None, intervalDays |-> None, weeklyDays |-> <<>>,
       timezone |-> Some(19800)],
      [name |-> None, scheduleType |-> Some("weekly"), intervalDays |-> None,
       weeklyDays |-> <<1, 3>>, timezone |-> None] }

\* update requests that name a new name (description and color are written
\* the same way) or a new interval
EditInputs ==
    { [name |-> Some("n2"), scheduleType |-> None, intervalDays |-> None, weeklyDays |-> <<>>,
       timezone |-> None],
      [name |-> None, scheduleType |-> None, intervalDays |-> Some(2), weeklyDays |-> <<>>,
       timezone |-> None] }

\* CHECK constraints of table habits
NoScheduleCheck(h) == TRUE
valid_schedule_interval(h) ==
    \/ h.scheduleType = "interval" /\ IsSome(h.intervalDays) /\ Len(h.weeklyDays) = 0
    \/ h.scheduleType = "weekly" /\ Len(h.weeklyDays) > 0 /\ ~IsSome(h.intervalDays)

HabitRowChecks(h) ==
    /\ IsSome(h.intervalDays) => Val(h.intervalDays) > 0
    /\ h.tzOffset >= -12 /\ h.tzOffset <= 14
    /\ h.streak >= 0
    /\ valid_schedule_interval(h)
    /\ Len(h.weeklyDays) <= 7

\* SELECT ... WHERE id = $1 AND user_id = $2
GetByIDAndUserID(habitID, userID) ==
    IF habitID \in DOMAIN habits /\ habits[habitID].userID = userID
    THEN Some(habits[habitID]) ELSE None

\* SELECT EXISTS(... WHERE habit_id = $1 AND confirmed_for_date = $2)
ExistsForDate(habitID, date) ==
    \E c \in confirmations : c.habitID = habitID /\ c.date = date

\* CONSTRAINT unique_habit_confirmation UNIQUE (habit_id, confirmed_for_date)
NoConstraint(habitID, date) == TRUE
unique_habit_confirmation(habitID, date) ==
    ~\E c \in confirmations : c.habitID = habitID /\ c.date = date

\* UPDATE habits SET streak, next_deadline_utc, confirmed_for_current_period,
\*                   last_confirmed_at = now WHERE id = $6
UpdateWithoutLastConfirmed(habitID, streak, nextDeadline, confirmed) ==
    [habits EXCEPT ![habitID].streak = streak,
                   ![habitID].nextDeadline = nextDeadline,
                   ![habitID].confirmed = confirmed]
UpdateStreakAndDeadline(habitID, streak, nextDeadline, confirmed) ==
    [habits EXCEPT ![habitID].streak = streak,
                   ![habitID].nextDeadline = nextDeadline,
                   ![habitID].confirmed = confirmed,
                   ![habitID].lastConfirmedAt = Some(now)]

\* UPDATE habits SET confirmed_for_current_period = FALSE WHERE id = $2
ResetConfirmationFlag(habitID) ==
    [habits EXCEPT ![habitID].confirmed = FALSE]

\* ORDER BY next_deadline_utc ASC (ties in id order)
RECURSIVE OrderByDeadline(_)
OrderByDeadline(ids) ==
    IF ids = {} THEN <<>>
    ELSE LET first == CHOOSE i \in ids : \A j \in ids :
                          \/ habits[i].nextDeadline < habits[j].nextDeadline
                          \/ habits[i].nextDeadline = habits[j].nextDeadline /\ i <= j
         IN <<[id |-> first, row |-> habits[first]]>> \o OrderByDeadline(ids \ {first})

\* WHERE is_active AND NOT confirmed_for_current_period AND next_deadline_utc <= $1
MissedStrict(row, t) == row.isActive /\ ~row.confirmed /\ row.nextDeadline < t
Missed(row, t) == row.isActive /\ ~row.confirmed /\ row.nextDeadline <= t

NoneMissed == <<>>
GetHabitsWithMissedDeadlines ==
    OrderByDeadline({i \in DOMAIN habits : Missed(habits[i], now)})

\* WHERE is_active AND confirmed_for_current_period
\*   AND next_deadline_utc >= $1 AND next_deadline_utc <= $2
GetHabitsToResetConfirmation(fromTime, toTime) ==
    OrderByDeadline({i \in DOMAIN habits :
        /\ habits[i].isActive /\ habits[i].confirmed
        /\ habits[i].nextDeadline >= fromTime /\ habits[i].nextDeadline <= toTime})

----------------------------------------------------------------------------
(* Scheduling of the habits-service handlers *)

IdleWorker ==
    [pc |-> "idle", op |-> "none", hid |-> 0, uid |-> "u1", habit |-> None,
     date |-> None, pre |-> 0, fresh |-> FALSE, recalc |-> FALSE, res |-> "none"]

WorkersIdle == \A w \in Workers : wk[w].pc = "idle"
OthersIdle(w) == \A v \in Workers \ {w} : wk[v].pc = "idle"

\* a worker may take a step
MayStep(w) == serial => (w = "w1" /\ OthersIdle(w) /\ sw.pc = "idle")
\* the deadline checker may take a step
MaySweep == serial => WorkersIdle

\* a request was handled: what the properties remember of the sweeper is stale
Touched(h) == [h EXCEPT !.prevTick = None, !.crashed = FALSE, !.crashDue = {}]

\* the record of the sweeper's passes is kept in the serial runs only
Observed(h) == IF serial THEN h ELSE hist

\* the handler returns res to its caller
Result(w, res) == [wk[w] EXCEPT !.pc = "ret", !.res = res]

\* the call begins
Call(w, op, habitID, userID) ==
    [IdleWorker EXCEPT !.op = op, !.hid = habitID, !.uid = userID]

\* the response has been sent
Return(w) ==
    /\ wk[w].pc = "ret"
    /\ MayStep(w)
    /\ wk' = [wk EXCEPT ![w] = IdleWorker]
    /\ UNCHANGED <<authVars, serial, now, habits, confirmations, sw, hist>>

----------------------------------------------------------------------------
(* habitService: the request handlers *)

CreateHabit(w, userID, in, timezone) ==
    LET timezoneOffset == ConvertTimezoneToOffset(timezone)
        \* time.Now().In(loc).Weekday(): the weekday in the zone itself
        currentWeekday == Weekday(now + timezone)
        confirmedForCurrentPeriod ==
            in.scheduleType = "weekly" /\ ~InDays(in.weeklyDays, currentWeekday)
        h0 == [userID |-> userID, name |-> "n1", scheduleType |-> in.scheduleType,
               intervalDays |-> in.intervalDays, weeklyDays |-> in.weeklyDays,
               tzOffset |-> timezoneOffset, streak |-> 0, nextDeadline |-> 0,
               confirmed |-> confirmedForCurrentPeriod, lastConfirmedAt |-> None,
               isActive |-> TRUE]
        habit == [h0 EXCEPT !.nextDeadline = CalculateInitialDeadline(h0, now)]
        id == Cardinality(DOMAIN habits) + 1
        call == Call(w, "create", 0, userID)
    IN /\ MayStep(w) /\ wk[w].pc = "idle"
       /\ id \in HabitIDs
       /\ hist' = Observed(Touched(hist))
       /\ IF \/ in.scheduleType = "interval"
                  /\ (~IsSome(in.intervalDays) \/ Val(in.intervalDays) <= 0)
             \/ in.scheduleType = "weekly" /\ Len(in.weeklyDays) = 0
          THEN /\ wk' = [wk EXCEPT ![w] = [call EXCEPT !.pc = "ret", !.res = "Invalid"]]
               /\ UNCHANGED habits
          ELSE IF ~HabitRowChecks(habit)
          THEN /\ wk' = [wk EXCEPT ![w] = [call EXCEPT !.pc = "ret", !.res = "StoreError"]]
               /\ UNCHANGED habits
          ELSE /\ habits' = habits @@ (id :> habit)
               /\ wk' = [wk EXCEPT ![w] = [call EXCEPT !.pc = "ret", !.res = "ok", !.hid = id]]
       /\ UNCHANGED <<authVars, serial, now, confirmations, sw>>

\* ConfirmHabit: load, flag check, today's local date
ConfirmLoad(w, habitID, userID) ==
    LET got == GetByIDAndUserID(habitID, userID)
        call == Call(w, "confirm", habitID, userID)
    IN /\ MayStep(w) /\ wk[w].pc = "idle"
       /\ hist' = Observed(Touched(hist))
       /\ IF ~IsSome(got)
          THEN wk' = [wk EXCEPT ![w] = [call EXCEPT !.pc = "ret", !.res = "NotFound"]]
          ELSE IF Val(got).confirmed
          THEN wk' = [wk EXCEPT ![w] = [call EXCEPT !.pc = "ret", !.res = "AlreadyConfirmed"]]
          ELSE wk' = [wk EXCEPT ![w] =
                         [call EXCEPT !.pc = "c_exists", !.habit = got,
                                      !.pre = Val(got).streak,
                                      !.date = Some(GetCurrentLocalDate(Val(got))),
                                      !.fresh = ~\E c \in confirmations :
                                                    /\ c.habitID = habitID
                                                    /\ c.date = GetCurrentLocalDate(Val(got))]]
       /\ UNCHANGED <<authVars, serial, now, habits, confirmations, sw>>

\* ConfirmHabit: the defense-in-depth check
ConfirmExists(w) ==
    /\ MayStep(w) /\ wk[w].pc = "c_exists"
    /\ IF ExistsForDate(wk[w].hid, Val(wk[w].date))
       THEN wk' = [wk EXCEPT ![w] = Result(w, "AlreadyConfirmed")]
       ELSE wk' = [wk EXCEPT ![w].pc = "c_insert"]
    /\ UNCHANGED <<authVars, serial, now, habits, confirmations, sw, hist>>

\* ConfirmHabit: confirmationRepo.Create
ConfirmInsert(w) ==
    /\ MayStep(w) /\ wk[w].pc = "c_insert"
    /\ IF unique_habit_confirmation(wk[w].hid, Val(wk[w].date))
       THEN /\ confirmations' = confirmations \cup
                   {[id |-> Cardinality(confirmations) + 1, habitID |-> wk[w].hid,
                     date |-> Val(wk[w].date)]}
            /\ wk' = [wk EXCEPT ![w].pc = "c_update"]
       ELSE /\ wk' = [wk EXCEPT ![w] = Result(w, "CreateFailed")]
            /\ UNCHANGED confirmations
    /\ UNCHANGED <<authVars, serial, now, habits, sw, hist>>

\* habit.Streak++
StreakPlusTwo(streak) == streak + 2
IncrementStreak(streak) == streak + 1

\* ConfirmHabit: streak, flag, next deadline, UpdateStreakAndDeadline
ConfirmUpdate(w) ==
    LET habit == Val(wk[w].habit)
        streak == IncrementStreak(habit.streak)
        nextDeadline == CalculateNextDeadline(habit, now)
        key == <<wk[w].hid, Val(wk[w].date)>>
    IN /\ MayStep(w) /\ wk[w].pc = "c_update"
       /\ habits' = UpdateStreakAndDeadline(wk[w].hid, streak, nextDeadline, TRUE)
       /\ wk' = [wk EXCEPT ![w] = Result(w, "ok")]
       /\ hist' = [hist EXCEPT !.okLog = @ \cup {key},
                               !.dup = @ \/ key \in hist.okLog]
       /\ UNCHANGED <<authVars, serial, now, confirmations, sw>>

\* ConfirmHabit: UpdateStreakAndDeadline returns an error (the statement
\* fails in the database), the confirmation row being in place
ConfirmUpdateFails(w) ==
    /\ MayStep(w) /\ wk[w].pc = "c_update"
    /\ wk' = [wk EXCEPT ![w] = Result(w, "UpdateFailed")]
    /\ UNCHANGED <<authVars, serial, now, habits, confirmations, sw, hist>>

\* DeleteHabit
DeleteLoad(w, habitID, userID) ==
    LET got == GetByIDAndUserID(habitID, userID)
        call == Call(w, "delete", habitID, userID)
    IN /\ MayStep(w) /\ wk[w].pc = "idle"
       /\ hist' = Observed(Touched(hist))
       /\ IF ~IsSome(got)
          THEN wk' = [wk EXCEPT ![w] = [call EXCEPT !.pc = "ret", !.res = "NotFound"]]
          ELSE wk' = [wk EXCEPT ![w] = [call EXCEPT !.pc = "d_write"]]
       /\ UNCHANGED <<authVars, serial, now, habits, confirmations, sw>>

DeleteWrite(w) ==
    /\ MayStep(w) /\ wk[w].pc = "d_write"
    /\ habits' = [habits EXCEPT ![wk[w].hid].isActive = FALSE]
    /\ wk' = [wk EXCEPT ![w] = Result(w, "ok")]
    /\ UNCHANGED <<authVars, serial, now, confirmations, sw, hist>>

\* UpdateHabit: load and apply the request to the loaded habit
UpdateLoad(w, habitID, userID, in) ==
    LET got == GetByIDAndUserID(habitID, userID)
        call == Call(w, "update", habitID, userID)
        h0 == IF IsSome(in.name) THEN [Val(got) EXCEPT !.name = Val(in.name)] ELSE Val(got)
        h1 == IF IsSome(in.scheduleType)
              THEN [h0 EXCEPT !.scheduleType = Val(in.scheduleType)] ELSE h0
        h2 == IF IsSome(in.intervalDays)
              THEN [h1 EXCEPT !.intervalDays = in.intervalDays] ELSE h1
        h3 == IF Len(in.weeklyDays) > 0
              THEN [h2 EXCEPT !.weeklyDays = in.weeklyDays] ELSE h2
        h4 == IF IsSome(in.timezone)
              THEN [h3 EXCEPT !.tzOffset = ConvertTimezoneToOffset(Val(in.timezone))]
              ELSE h3
        needsDeadlineRecalc ==
            \/ IsSome(in.scheduleType) \/ IsSome(in.intervalDays)
            \/ Len(in.weeklyDays) > 0 \/ IsSome(in.timezone)
        \* CalculateNextDeadline dereferences IntervalDays of an interval habit
        panics == needsDeadlineRecalc /\ IsInterval(h4) /\ ~IsSome(h4.intervalDays)
        h5 == IF needsDeadlineRecalc /\ ~panics
              THEN [h4 EXCEPT !.nextDeadline = CalculateNextDeadline(h4, now),
                              !.confirmed = FALSE]
              ELSE h4
    IN /\ MayStep(w) /\ wk[w].pc = "idle"
       /\ hist' = Observed(Touched(hist))
       /\ IF ~IsSome(got)
          THEN wk' = [wk EXCEPT ![w] = [call EXCEPT !.pc = "ret", !.res = "NotFound"]]
          ELSE IF panics
          THEN wk' = [wk EXCEPT ![w] = [call EXCEPT !.pc = "ret", !.res = "Panic"]]
          ELSE IF \/ IsInterval(h5) /\ (~IsSome(h5.intervalDays) \/ Val(h5.intervalDays) <= 0)
                  \/ IsWeekly(h5) /\ Len(h5.weeklyDays) = 0
          THEN wk' = [wk EXCEPT ![w] = [call EXCEPT !.pc = "ret", !.res = "Invalid"]]
          ELSE wk' = [wk EXCEPT ![w] = [call EXCEPT !.pc = "u_write", !.habit = Some(h5),
                                                    !.recalc = needsDeadlineRecalc]]
       /\ UNCHANGED <<authVars, serial, now, habits, confirmations, sw>>

\* an Update statement that also clears the streak
UpdateWriteClearingStreak(w) ==
    /\ MayStep(w) /\ wk[w].pc = "u_write"
    /\ habits' = [habits EXCEPT ![wk[w].hid].name = Val(wk[w].habit).name,
                                ![wk[w].hid].streak = 0]
    /\ wk' = [wk EXCEPT ![w] = Result(w, "ok")]
    /\ UNCHANGED <<authVars, serial, now, confirmations, sw, hist>>

\* habitRepo.Update: the statement writes the name, the schedule and the
\* offset only
UpdateWrite(w) ==
    LET habit == Val(wk[w].habit)
        row == [habits[wk[w].hid] EXCEPT
                   !.name = habit.name,
                   !.scheduleType = habit.scheduleType,
                   !.intervalDays = habit.intervalDays,
                   !.weeklyDays = habit.weeklyDays,
                   !.tzOffset = habit.tzOffset]
    IN /\ MayStep(w) /\ wk[w].pc = "u_write"
       /\ IF HabitRowChecks(row)
          THEN /\ habits' = [habits EXCEPT ![wk[w].hid] = row]
               /\ wk' = [wk EXCEPT ![w] = Result(w, "ok")]
          ELSE /\ wk' = [wk EXCEPT ![w] = Result(w, "StoreError")]
               /\ UNCHANGED habits
       /\ UNCHANGED <<authVars, serial, now, confirmations, sw, hist>>

----------------------------------------------------------------------------
(* DeadlineChecker.checkDeadlines: Pass A (ResetConfirmationFlags), then    *)
(* Pass B (ProcessMissedDeadlines)                                          *)

\* cron "@every 1m", in seconds
CheckInterval == 60

\* a run of checkDeadlines: its position and the habits its pass has yet to
\* visit
IdleRun == [pc |-> "idle", list |-> <<>>]

\* the run in progress, the instant it started, and the run that cron started
\* while the first had not returned
IdleSweeper == [pc |-> "idle", list |-> <<>>, started |-> 0, late |-> IdleRun]

\* a habit the sweeper has to demote at instant t (the statement of the spec)
DueForDemotion(row, t) == row.isActive /\ ~row.confirmed /\ row.nextDeadline <= t

\* Pass A: the query over the +-24 hour window
SweepASelect ==
    /\ MaySweep /\ sw.pc = "idle"
    /\ sw' = [sw EXCEPT !.pc = "a_loop", !.started = now,
                        !.list = GetHabitsToResetConfirmation(now - Day, now + Day)]
    /\ hist' = Observed([hist EXCEPT !.aCleared = {}, !.bLog = <<>>, !.bPre = None,
                            !.afterCrash = hist.crashed])
    /\ UNCHANGED <<authVars, serial, now, habits, confirmations, wk>>

\* Pass A: today is the deadline day of the habit
NewPeriodStarted(row) ==
    GetCurrentLocalDate(row)
        = FormatDate(StartOfDay(GetLocalTime(row, row.nextDeadline)))

\* Pass A: one habit of the result
SweepAEach ==
    /\ MaySweep /\ sw.pc = "a_loop" /\ Len(sw.list) > 0
    /\ LET habit == Head(sw.list)
       IN IF NewPeriodStarted(habit.row)
          THEN /\ habits' = ResetConfirmationFlag(habit.id)
               /\ hist' = Observed([hist EXCEPT !.aCleared = @ \cup {habit.id}])
          ELSE UNCHANGED <<habits, hist>>
    /\ sw' = [sw EXCEPT !.list = Tail(@)]
    /\ UNCHANGED <<authVars, serial, now, confirmations, wk>>

SweepAEnd ==
    /\ MaySweep /\ sw.pc = "a_loop" /\ Len(sw.list) = 0
    /\ sw' = [sw EXCEPT !.pc = "between"]
    /\ UNCHANGED <<authVars, serial, now, habits, confirmations, wk, hist>>

\* the process stops between the passes
SweepCrash ==
    /\ MaySweep /\ sw.pc = "between"
    /\ sw' = [sw EXCEPT !.pc = "idle", !.list = <<>>, !.started = 0]
    /\ hist' = Observed([hist EXCEPT
                   !.crashed = TRUE, !.afterCrash = FALSE, !.prevTick = None,
                   !.crashDue = {i \in DOMAIN habits : DueForDemotion(habits[i], now)}])
    /\ UNCHANGED <<authVars, serial, now, habits, confirmations, wk>>

\* Pass B: the query for missed deadlines
SweepBSelect ==
    /\ MaySweep /\ sw.pc = "between"
    /\ sw' = [sw EXCEPT !.pc = "b_loop", !.list = GetHabitsWithMissedDeadlines]
    /\ hist' = Observed([hist EXCEPT !.bPre = Some(habits), !.bT = now])
    /\ UNCHANGED <<authVars, serial, now, habits, confirmations, wk>>

\* Pass B: the deadline of the new period
PreviousDeadline(row, t) == row.nextDeadline - Day
DemotedDeadline(row, t) == CalculateNextDeadline(row, t)

\* Pass B: one habit of the result
SweepBEach ==
    /\ MaySweep /\ sw.pc = "b_loop" /\ Len(sw.list) > 0
    /\ LET habit == Head(sw.list)
       IN /\ habits' = UpdateStreakAndDeadline(habit.id, 0,
                           DemotedDeadline(habit.row, now), FALSE)
          /\ hist' = Observed([hist EXCEPT !.bLog = Append(@, habit.id)])
    /\ sw' = [sw EXCEPT !.list = Tail(@)]
    /\ UNCHANGED <<authVars, serial, now, confirmations, wk>>

SweepBEnd ==
    /\ MaySweep /\ sw.pc = "b_loop" /\ Len(sw.list) = 0
    /\ sw' = [sw EXCEPT !.pc = "done"]
    /\ UNCHANGED <<authVars, serial, now, habits, confirmations, wk, hist>>

\* checkDeadlines returns
SweepReturn ==
    /\ MaySweep /\ sw.pc = "done"
    /\ sw' = [sw EXCEPT !.pc = "idle", !.list = <<>>, !.started = 0]
    /\ hist' = Observed([hist EXCEPT !.aCleared = {}, !.bLog = <<>>, !.bPre = None, !.bT = 0,
                            !.prevTick = Some(habits),
                            !.crashed = FALSE, !.afterCrash = FALSE, !.crashDue = {}])
    /\ UNCHANGED <<authVars, serial, now, habits, confirmations, wk>>

----------------------------------------------------------------------------
(* cron: every entry runs in a goroutine of its own when its time has come  *)

\* a run takes its time, the context of a run allowing five minutes: the
\* check interval passes while the run is in progress (the runs that started
\* at an instant of AdvanceTime, which bounds the clock)
SweepSlow ==
    /\ ~serial /\ sw.pc # "idle"
    /\ now = sw.started /\ (now % Day) \in {0, Day - 1}
    /\ now' = now + CheckInterval
    /\ UNCHANGED <<authVars, serial, habitVars>>

\* the next tick: cron starts checkDeadlines again, the earlier run not having
\* returned; Pass A of the new run makes its query
SweepOverlap ==
    /\ ~serial /\ sw.pc # "idle" /\ sw.late.pc = "idle"
    /\ now >= sw.started + CheckInterval
    /\ sw' = [sw EXCEPT !.late = [pc |-> "a_loop",
                  list |-> GetHabitsToResetConfirmation(now - Day, now + Day)]]
    /\ UNCHANGED <<authVars, serial, now, habits, confirmations, wk, hist>>

\* Pass A of the later run: one habit of the result
LateAEach ==
    /\ sw.late.pc = "a_loop" /\ Len(sw.late.list) > 0
    /\ LET habit == Head(sw.late.list)
       IN IF NewPeriodStarted(habit.row)
          THEN habits' = ResetConfirmationFlag(habit.id)
          ELSE UNCHANGED habits
    /\ sw' = [sw EXCEPT !.late.list = Tail(@)]
    /\ UNCHANGED <<authVars, serial, now, confirmations, wk, hist>>

\* Pass B of the later run: the query for missed deadlines
LateBSelect ==
    /\ sw.late.pc = "a_loop" /\ Len(sw.late.list) = 0
    /\ sw' = [sw EXCEPT !.late = [pc |-> "b_loop", list |-> GetHabitsWithMissedDeadlines]]
    /\ UNCHANGED <<authVars, serial, now, habits, confirmations, wk, hist>>

\* Pass B of the later run: one habit of the result
LateBEach ==
    /\ sw.late.pc = "b_loop" /\ Len(sw.late.list) > 0
    /\ LET habit == Head(sw.late.list)
       IN habits' = UpdateStreakAndDeadline(habit.id, 0,
                        DemotedDeadline(habit.row, now), FALSE)
    /\ sw' = [sw EXCEPT !.late.list = Tail(@)]
    /\ UNCHANGED <<authVars, serial, now, confirmations, wk, hist>>

\* the later run returns
LateReturn ==
    /\ sw.late.pc = "b_loop" /\ Len(sw.late.list) = 0
    /\ sw' = [sw EXCEPT !.late = IdleRun]
    /\ UNCHANGED <<authVars, serial, now, habits, confirmations, wk, hist>>

----------------------------------------------------------------------------
(* The clock *)

\* instants of a day the clock stops at: midnight and 23:59:59 in each
\* stored offset
SecondsOfDay ==
    UNION { { (mark - ConvertTimezoneToOffset(z) * Hour) % Day : mark \in {0, Day - 1} }
            : z \in Zones }

Instants == { ClockStart + d * Day + s : d \in 0..MaxDays, s \in SecondsOfDay }

\* the instants around the first two deadlines of a daily habit in UTC
RaceInstants == { ClockStart + d * Day + s : d \in {0, 1}, s \in {0, Day - 1} }

AdvanceTime ==
    /\ serial => (WorkersIdle /\ sw.pc = "idle")
    /\ \E t \in (IF serial THEN Instants ELSE RaceInstants) : t > now /\ now' = t
    /\ hist' = Observed([hist EXCEPT !.prevTick = None])
    /\ UNCHANGED <<authVars, serial, habits, confirmations, wk, sw>>

----------------------------------------------------------------------------
(* user-service: strings, signed tokens and the stores of the session core *)

SessionIDs == {"s1", "s2"}
VerificationTokenIDs == {"v1", "v2"}
ResetTokenIDs == {"r1"}
\* the users that register; the others only call
Registrants == {"u1"}
Passwords == {"p1", "p2"}

\* configuration of the token manager and the TTLs of the single-use tokens
AccessTokenTTL == 15 * 60
RefreshTokenTTL == 7 * Day
verificationTokenTTL == 24 * Hour
passwordResetTokenTTL == 1 * Hour

\* user.ID.String() and user.Email, as sequences of characters
UserIDText(u) == IF u = "u1" THEN <<"u", "1">> ELSE <<"u", "2">>
EmailText(u) == IF u = "u1" THEN <<"a", "@", "x">> ELSE <<"b", "@", "x">>

\* uuid.Parse
ParseUserID(text) ==
    IF \E u \in UserIDs : UserIDText(u) = text
    THEN Some(CHOOSE u \in UserIDs : UserIDText(u) = text) ELSE None

\* fmt.Sprintf("%s:%s", userID, email)
FormatTokenData(userID, email) == UserIDText(userID) \o <<":">> \o email

IsSpace(c) == c \in {" ", "\t"}

RECURSIVE SkipSpace(_)
SkipSpace(s) == IF Len(s) > 0 /\ IsSpace(Head(s)) THEN SkipSpace(Tail(s)) ELSE s

\* the verb %s reads up to the next space
RECURSIVE WordLen(_)
WordLen(s) == IF Len(s) = 0 \/ IsSpace(Head(s)) THEN 0 ELSE 1 + WordLen(Tail(s))

\* fmt.Sscanf(value, "%s:%s", &uid, &em)
ScanTokenData(value) ==
    LET s1 == SkipSpace(value)
        n1 == WordLen(s1)
        r1 == SubSeq(s1, n1 + 1, Len(s1))
        s2 == SkipSpace(Tail(r1))
        n2 == WordLen(s2)
        failed == [ok |-> FALSE, uid |-> <<>>, em |-> <<>>]
    IN IF n1 = 0 THEN failed
       ELSE IF Len(r1) = 0 \/ Head(r1) # ":" THEN failed
       ELSE IF n2 = 0 THEN failed
       ELSE [ok |-> TRUE, uid |-> SubSeq(s1, 1, n1), em |-> SubSeq(s2, 1, n2)]

\* hash.HashPassword and hash.ComparePassword
HashPassword(password) == <<"bcrypt", password>>
RejectPassword(passwordHash, password) == FALSE
ComparePassword(passwordHash, password) == passwordHash = HashPassword(password)

NoUser ==
    [registered |-> FALSE, isActive |-> FALSE, emailVerified |-> FALSE,
     passwordHash |-> <<>>, rows |-> 0]

\* SELECT EXISTS(SELECT 1 FROM users WHERE email = $1)
EmailExists(u) == users[u].registered

\* email VARCHAR(255) UNIQUE NOT NULL
users_email_key(u) == users[u].rows = 0

\* SELECT ... FROM users WHERE id = $1 AND is_active = true
GetUserByID(u) == IF users[u].registered /\ users[u].isActive THEN Some(users[u]) ELSE None
\* SELECT ... FROM users WHERE email = $1 AND is_active = true
GetUserByEmail(u) == GetUserByID(u)

Put(f, k, v) == [x \in DOMAIN f \cup {k} |-> IF x = k THEN v ELSE f[x]]
Drop(f, ks) == [x \in DOMAIN f \ ks |-> f[x]]

\* a cache key is readable until its TTL runs out
KeyLive(store, k) == k \in DOMAIN store /\ store[k].exp > now

\* tokenManager.ValidateToken: signature and expiry
ValidateToken(tok) == tok \in tokens /\ ~(now > tok.exp)
ValidateAccessToken(tok) == ValidateToken(tok) /\ tok.type = "access"

GenerateAccessToken(userID, sessionID) ==
    [type |-> "access", userID |-> userID, sessionID |-> sessionID,
     exp |-> now + AccessTokenTTL]
GenerateRefreshToken(userID, sessionID) ==
    [type |-> "refresh", userID |-> userID, sessionID |-> sessionID,
     exp |-> now + RefreshTokenTTL]

\* SessionStorage.Exists and SessionStorage.Get
SessionExists(sessionID) == KeyLive(sessions, sessionID)
\* a Get that answers a missing key with a new session
SessionGetOrCreate(sessionID) ==
    IF KeyLive(sessions, sessionID) THEN Some(sessions[sessionID])
    ELSE Some([id |-> sessionID, userID |-> "u1", exp |-> now + RefreshTokenTTL,
               lastActivityAt |-> now])
SessionGet(sessionID) ==
    IF KeyLive(sessions, sessionID) THEN Some(sessions[sessionID]) ELSE None

\* SessionStorage.Set: the session key with the TTL until ExpiresAt and the
\* member of the owner's set (the token-hash key is read by no handler)
SessionSetFails(session) == session.exp - now <= 0
SessionSetKeys(session) == Put(sessions, session.id, session)
SessionSetMembers(session) ==
    [userSessions EXCEPT ![session.userID] = @ \cup {session.id}]

\* SessionStorage.Delete: the session key and the member of the owner's set
KeepSessionKey(sessionID) == sessions
SessionDeleteKeys(sessionID) == Drop(sessions, {sessionID})
SessionDeleteMembers(sessionID) ==
    [userSessions EXCEPT ![sessions[sessionID].userID] = @ \ {sessionID}]

\* SessionStorage.GetByUserID: the readable sessions among the members
SessionGetByUserID(userID) == {s \in userSessions[userID] : SessionExists(s)}

\* SessionStorage.DeleteByUserID
SessionDeleteByUserIDKeys(userID) == Drop(sessions, SessionGetByUserID(userID))
SessionDeleteByUserIDMembers(userID) == [userSessions EXCEPT ![userID] = {}]

\* sessionRepo.DeleteByUserID: DELETE FROM sessions WHERE user_id = $1
MirrorDeleteByUserID(userID) == {r \in sessionRows : r.userID # userID}

\* VerificationTokenStorage.GetUserIDByToken
GetUserIDByToken(token) ==
    IF KeyLive(verificationTokens, token)
    THEN Some(verificationTokens[token].userID) ELSE None

\* PasswordResetTokenStorage.GetTokenData
GetTokenData(token) ==
    IF KeyLive(passwordResetTokens, token)
    THEN ScanTokenData(passwordResetTokens[token].value)
    ELSE [ok |-> FALSE, uid |-> <<>>, em |-> <<>>]

\* rand.Read / uuid.New: an identifier never handed out before
HasFresh(ids) == ids \ ahist.alloc # {}
Fresh(ids) == CHOOSE i \in ids \ ahist.alloc : TRUE

----------------------------------------------------------------------------
(* authService: the request handlers *)

IdleAuth ==
    [pc |-> "idle", op |-> "none", user |-> "u1", sid |-> "none", tok |-> None,
     session |-> None, valid |-> FALSE, pre |-> {}, res |-> "none"]

AuthMayStep(w) == serial => (w = "w1" /\ \A v \in Workers \ {w} : aw[v].pc = "idle")

AuthCall(op, user) == [IdleAuth EXCEPT !.op = op, !.user = user]
AuthResult(rec, res) == [rec EXCEPT !.pc = "ret", !.res = res]

\* a presentation of a single-use token has succeeded
Consume(token) ==
    [ahist EXCEPT !.consumed = @ \cup {token},
                  !.reused = @ \/ token \in ahist.consumed]

\* the response has been sent
AuthReturn(w) ==
    /\ aw[w].pc = "ret" /\ AuthMayStep(w)
    /\ aw' = [aw EXCEPT ![w] = IdleAuth]
    /\ UNCHANGED <<gw, habitVars, serial, now, users, sessions, userSessions, sessionRows,
                   verificationTokens, passwordResetTokens, tokens, ahist>>

\* Register: CreateUser checks that the email is free
Register(w, u) ==
    LET call == AuthCall("register", u)
    IN /\ aw[w].pc = "idle" /\ AuthMayStep(w)
       /\ HasFresh(VerificationTokenIDs)
       /\ IF EmailExists(u)
          THEN aw' = [aw EXCEPT ![w] = AuthResult(call, "AlreadyExists")]
          ELSE aw' = [aw EXCEPT ![w] = [call EXCEPT !.pc = "rg_insert"]]
       /\ UNCHANGED <<gw, habitVars, serial, now, users, sessions, userSessions, sessionRows,
                      verificationTokens, passwordResetTokens, tokens, ahist>>

\* Register: userRepo.Create
RegisterInsert(w) ==
    LET u == aw[w].user
    IN /\ aw[w].pc = "rg_insert" /\ AuthMayStep(w)
       /\ IF users_email_key(u)
          THEN /\ users' = [users EXCEPT ![u] =
                               [registered |-> TRUE, isActive |-> TRUE,
                                emailVerified |-> FALSE,
                                passwordHash |-> HashPassword("p1"),
                                rows |-> users[u].rows + 1]]
               /\ aw' = [aw EXCEPT ![w].pc = "rg_token"]
          ELSE /\ aw' = [aw EXCEPT ![w] = AuthResult(aw[w], "CreateFailed")]
               /\ UNCHANGED users
       /\ UNCHANGED <<gw, habitVars, serial, now, sessions, userSessions, sessionRows,
                      verificationTokens, passwordResetTokens, tokens, ahist>>

\* Register: the verification token and the UserRegistered event, whose
\* publish error is only logged
RegisterToken(w, fault) ==
    LET token == Fresh(VerificationTokenIDs)
    IN /\ aw[w].pc = "rg_token" /\ AuthMayStep(w)
       /\ HasFresh(VerificationTokenIDs)
       /\ verificationTokens' = Put(verificationTokens, token,
              [userID |-> aw[w].user, exp |-> now + verificationTokenTTL])
       /\ ahist' = [ahist EXCEPT !.alloc = @ \cup {token},
                                 !.unpublished = @ \/ fault = "publish"]
       /\ aw' = [aw EXCEPT ![w] = AuthResult([aw[w] EXCEPT !.tok = Some(token)], "ok")]
       /\ UNCHANGED <<gw, habitVars, serial, now, users, sessions, userSessions, sessionRows,
                      passwordResetTokens, tokens>>

ResendVerificationEmail(w, u, fault) ==
    LET call == AuthCall("resend", u)
        got == GetUserByEmail(u)
        token == Fresh(VerificationTokenIDs)
    IN /\ aw[w].pc = "idle" /\ AuthMayStep(w)
       /\ HasFresh(VerificationTokenIDs)
       /\ IF ~IsSome(got)
          THEN /\ aw' = [aw EXCEPT ![w] = AuthResult(call, "UserNotFound")]
               /\ UNCHANGED <<verificationTokens, ahist>>
          ELSE IF Val(got).emailVerified
          THEN /\ aw' = [aw EXCEPT ![w] = AuthResult(call, "AlreadyVerified")]
               /\ UNCHANGED <<verificationTokens, ahist>>
          ELSE /\ verificationTokens' = Put(verificationTokens, token,
                      [userID |-> u, exp |-> now + verificationTokenTTL])
               /\ ahist' = [ahist EXCEPT !.alloc = @ \cup {token},
                                         !.unpublished = @ \/ fault = "publish"]
               /\ aw' = [aw EXCEPT ![w] =
                            AuthResult([call EXCEPT !.tok = Some(token)],
                                       IF fault = "publish" THEN "PublishFailed" ELSE "ok")]
       /\ UNCHANGED <<gw, habitVars, serial, now, users, sessions, userSessions, sessionRows,
                      passwordResetTokens, tokens>>

\* VerifyEmail: the token, the user, the already-verified return
VerifyGet(w, token) ==
    LET got == GetUserIDByToken(token)
        call == [AuthCall("verify", "u1") EXCEPT !.tok = Some(token),
                                                 !.valid = IsSome(got)]
        user == GetUserByID(Val(got))
    IN /\ aw[w].pc = "idle" /\ AuthMayStep(w)
       /\ IF ~IsSome(got)
          THEN /\ aw' = [aw EXCEPT ![w] = AuthResult(call, "InvalidToken")]
               /\ UNCHANGED ahist
          ELSE IF ~IsSome(user)
          THEN /\ aw' = [aw EXCEPT ![w] =
                            AuthResult([call EXCEPT !.user = Val(got)], "UserNotFound")]
               /\ UNCHANGED ahist
          ELSE IF Val(user).emailVerified
          THEN /\ aw' = [aw EXCEPT ![w] = AuthResult([call EXCEPT !.user = Val(got)], "ok")]
               /\ ahist' = Consume(token)
          ELSE /\ aw' = [aw EXCEPT ![w] = [call EXCEPT !.pc = "ve_update", !.user = Val(got)]]
               /\ UNCHANGED ahist
       /\ UNCHANGED <<gw, habitVars, serial, now, users, sessions, userSessions, sessionRows,
                      verificationTokens, passwordResetTokens, tokens>>

\* VerifyEmail: userService.UpdateUser
VerifyUpdate(w) ==
    /\ aw[w].pc = "ve_update" /\ AuthMayStep(w)
    /\ IF IsSome(GetUserByID(aw[w].user))
       THEN /\ users' = [users EXCEPT ![aw[w].user].emailVerified = TRUE]
            /\ aw' = [aw EXCEPT ![w].pc = "ve_delete"]
       ELSE /\ aw' = [aw EXCEPT ![w] = AuthResult(aw[w], "UpdateFailed")]
            /\ UNCHANGED users
    /\ UNCHANGED <<gw, habitVars, serial, now, sessions, userSessions, sessionRows,
                   verificationTokens, passwordResetTokens, tokens, ahist>>

\* VerifyEmail: verificationTokenStore.DeleteToken
VerifyDelete(w) ==
    /\ aw[w].pc = "ve_delete" /\ AuthMayStep(w)
    /\ verificationTokens' = Drop(verificationTokens, {Val(aw[w].tok)})
    /\ ahist' = Consume(Val(aw[w].tok))
    /\ aw' = [aw EXCEPT ![w] = AuthResult(aw[w], "ok")]
    /\ UNCHANGED <<gw, habitVars, serial, now, users, sessions, userSessions, sessionRows,
                   passwordResetTokens, tokens>>

\* Login and createSession
Login(w, u, password, fault) ==
    LET call == AuthCall("login", u)
        got == GetUserByEmail(u)
        sessionID == Fresh(SessionIDs)
        accessToken == GenerateAccessToken(u, sessionID)
        refreshToken == GenerateRefreshToken(u, sessionID)
        session == [id |-> sessionID, userID |-> u, exp |-> refreshToken.exp,
                    lastActivityAt |-> now]
    IN /\ aw[w].pc = "idle" /\ AuthMayStep(w)
       /\ HasFresh(SessionIDs)
       /\ IF ~IsSome(got)
          THEN /\ aw' = [aw EXCEPT ![w] = AuthResult(call, "InvalidCredentials")]
               /\ UNCHANGED <<sessions, userSessions, sessionRows, tokens, ahist>>
          ELSE IF ~Val(got).isActive
          THEN /\ aw' = [aw EXCEPT ![w] = AuthResult(call, "Deactivated")]
               /\ UNCHANGED <<sessions, userSessions, sessionRows, tokens, ahist>>
          ELSE IF ~Val(got).emailVerified
          THEN /\ aw' = [aw EXCEPT ![w] = AuthResult(call, "EmailNotVerified")]
               /\ ahist' = [ahist EXCEPT !.refused = @ \cup {u}]
               /\ UNCHANGED <<sessions, userSessions, sessionRows, tokens>>
          ELSE IF ~ComparePassword(Val(got).passwordHash, password)
          THEN /\ aw' = [aw EXCEPT ![w] = AuthResult(call, "InvalidCredentials")]
               /\ UNCHANGED <<sessions, userSessions, sessionRows, tokens, ahist>>
          ELSE IF SessionSetFails(session)
          THEN /\ aw' = [aw EXCEPT ![w] = AuthResult(call, "SessionFailed")]
               /\ ahist' = [ahist EXCEPT !.alloc = @ \cup {sessionID}]
               /\ UNCHANGED <<sessions, userSessions, sessionRows, tokens>>
          ELSE /\ tokens' = tokens \cup {accessToken, refreshToken}
               /\ sessions' = SessionSetKeys(session)
               /\ userSessions' = SessionSetMembers(session)
               /\ sessionRows' = IF fault = "mirror" THEN sessionRows
                                  ELSE sessionRows \cup {[id |-> sessionID, userID |-> u]}
               /\ ahist' = [ahist EXCEPT !.alloc = @ \cup {sessionID}]
               /\ aw' = [aw EXCEPT ![w] =
                            AuthResult([call EXCEPT !.sid = sessionID,
                                                    !.tok = Some(accessToken)], "ok")]
       /\ UNCHANGED <<gw, habitVars, serial, now, users, verificationTokens,
                      passwordResetTokens>>

\* Logout: the session and its owner
LogoutGet(w, u, sessionID) ==
    LET call == [AuthCall("logout", u) EXCEPT !.sid = sessionID]
        session == SessionGet(sessionID)
    IN /\ aw[w].pc = "idle" /\ AuthMayStep(w)
       /\ IF ~IsSome(session)
          THEN aw' = [aw EXCEPT ![w] = AuthResult(call, "SessionNotFound")]
          ELSE IF Val(session).userID # u
          THEN aw' = [aw EXCEPT ![w] = AuthResult(call, "Unauthorized")]
          ELSE aw' = [aw EXCEPT ![w] = [call EXCEPT !.pc = "lo_delete"]]
       /\ UNCHANGED <<gw, habitVars, serial, now, users, sessions, userSessions, sessionRows,
                      verificationTokens, passwordResetTokens, tokens, ahist>>

\* Logout: sessionStorage.Delete, then sessionRepo.Delete
LogoutDelete(w) ==
    LET sessionID == aw[w].sid
    IN /\ aw[w].pc = "lo_delete" /\ AuthMayStep(w)
       /\ IF ~SessionExists(sessionID)
          THEN /\ aw' = [aw EXCEPT ![w] = AuthResult(aw[w], "CacheDeleteFailed")]
               /\ UNCHANGED <<sessions, userSessions, sessionRows, ahist>>
          ELSE /\ sessions' = SessionDeleteKeys(sessionID)
               /\ userSessions' = SessionDeleteMembers(sessionID)
               /\ IF \E r \in sessionRows : r.id = sessionID
                  THEN /\ sessionRows' = {r \in sessionRows : r.id # sessionID}
                       /\ ahist' = [ahist EXCEPT !.loggedOut = @ \cup {sessionID}]
                       /\ aw' = [aw EXCEPT ![w] = AuthResult(aw[w], "ok")]
                  ELSE /\ aw' = [aw EXCEPT ![w] = AuthResult(aw[w], "MirrorDeleteFailed")]
                       /\ UNCHANGED <<sessionRows, ahist>>
       /\ UNCHANGED <<gw, habitVars, serial, now, users, verificationTokens,
                      passwordResetTokens, tokens>>

\* ValidateAccessToken: the token and sessionStorage.Exists
ValidateExists(w, tok) ==
    LET call == [AuthCall("validate", tok.userID) EXCEPT
                    !.sid = tok.sessionID, !.tok = Some(tok)]
    IN /\ aw[w].pc = "idle" /\ AuthMayStep(w)
       /\ IF ~ValidateAccessToken(tok)
          THEN aw' = [aw EXCEPT ![w] = AuthResult(call, "InvalidToken")]
          ELSE IF ~SessionExists(tok.sessionID)
          THEN aw' = [aw EXCEPT ![w] = AuthResult(call, "SessionNotFound")]
          ELSE aw' = [aw EXCEPT ![w] = [call EXCEPT !.pc = "va_get"]]
       /\ UNCHANGED <<gw, habitVars, serial, now, users, sessions, userSessions, sessionRows,
                      verificationTokens, passwordResetTokens, tokens, ahist>>

\* UpdateLastActivity: sessionStorage.Get (its error is dropped)
ValidateGet(w) ==
    /\ aw[w].pc = "va_get" /\ AuthMayStep(w)
    /\ IF IsSome(SessionGet(aw[w].sid))
       THEN aw' = [aw EXCEPT ![w].pc = "va_set", ![w].session = SessionGet(aw[w].sid)]
       ELSE aw' = [aw EXCEPT ![w] = AuthResult(aw[w], "ok")]
    /\ UNCHANGED <<gw, habitVars, serial, now, users, sessions, userSessions, sessionRows,
                   verificationTokens, passwordResetTokens, tokens, ahist>>

\* UpdateLastActivity: UpdateActivity and sessionStorage.Set (its error is dropped)
ValidateSet(w) ==
    LET session == [Val(aw[w].session) EXCEPT !.lastActivityAt = now]
    IN /\ aw[w].pc = "va_set" /\ AuthMayStep(w)
       /\ IF SessionSetFails(session)
          THEN UNCHANGED <<sessions, userSessions>>
          ELSE /\ sessions' = SessionSetKeys(session)
               /\ userSessions' = SessionSetMembers(session)
       /\ aw' = [aw EXCEPT ![w] = AuthResult(aw[w], "ok")]
       /\ UNCHANGED <<gw, habitVars, serial, now, users, sessionRows, verificationTokens,
                      passwordResetTokens, tokens, ahist>>

\* RevokeAllSessions: GetByUserID, the members of the set that are readable
RevokeAllList(w, u) ==
    LET call == AuthCall("revoke_all", u)
    IN /\ aw[w].pc = "idle" /\ AuthMayStep(w)
       /\ aw' = [aw EXCEPT ![w] = [call EXCEPT !.pc = "ra_each",
                                               !.pre = SessionGetByUserID(u)]]
       /\ UNCHANGED <<gw, habitVars, serial, now, users, sessions, userSessions, sessionRows,
                      verificationTokens, passwordResetTokens, tokens, ahist>>

\* DeleteByUserID: Delete of one session of the list, its error dropped
RevokeAllEach(w) ==
    /\ aw[w].pc = "ra_each" /\ aw[w].pre # {} /\ AuthMayStep(w)
    /\ LET sessionID == CHOOSE s \in aw[w].pre : TRUE
       IN /\ IF SessionExists(sessionID)
             THEN /\ sessions' = SessionDeleteKeys(sessionID)
                  /\ userSessions' = SessionDeleteMembers(sessionID)
             ELSE UNCHANGED <<sessions, userSessions>>
          /\ aw' = [aw EXCEPT ![w].pre = @ \ {sessionID}]
    /\ UNCHANGED <<gw, habitVars, serial, now, users, sessionRows,
                   verificationTokens, passwordResetTokens, tokens, ahist>>

\* DeleteByUserID: Del of the set of the user; then sessionRepo.DeleteByUserID
RevokeAllDeleteSet(w) ==
    /\ aw[w].pc = "ra_each" /\ aw[w].pre = {} /\ AuthMayStep(w)
    /\ userSessions' = SessionDeleteByUserIDMembers(aw[w].user)
    /\ sessionRows' = MirrorDeleteByUserID(aw[w].user)
    /\ aw' = [aw EXCEPT ![w] = AuthResult(aw[w], "ok")]
    /\ UNCHANGED <<gw, habitVars, serial, now, users, sessions,
                   verificationTokens, passwordResetTokens, tokens, ahist>>

\* a refresh validator that does not look at the token type
ValidateAnyToken(tok) == ValidateToken(tok)

\* TokenManager.ValidateRefreshToken
ValidateRefreshToken(tok) == ValidateToken(tok) /\ tok.type = "refresh"

\* RefreshToken: the token, sessionStorage.Get and the new pair of tokens;
\* UpdateLastActivity follows in ValidateGet and ValidateSet
RefreshToken(w, tok) ==
    LET call == [AuthCall("refresh", tok.userID) EXCEPT
                    !.sid = tok.sessionID, !.tok = Some(tok)]
        got == SessionGet(tok.sessionID)
        session == Val(got)
    IN /\ aw[w].pc = "idle" /\ AuthMayStep(w)
       /\ IF ~ValidateRefreshToken(tok)
          THEN /\ aw' = [aw EXCEPT ![w] = AuthResult(call, "InvalidToken")]
               /\ UNCHANGED tokens
          ELSE IF ~IsSome(got)
          THEN /\ aw' = [aw EXCEPT ![w] = AuthResult(call, "SessionNotFound")]
               /\ UNCHANGED tokens
          ELSE /\ tokens' = tokens \cup {GenerateAccessToken(session.userID, session.id),
                                         GenerateRefreshToken(session.userID, session.id)}
               /\ aw' = [aw EXCEPT ![w] = [call EXCEPT !.pc = "va_get",
                                                       !.user = session.userID]]
       /\ UNCHANGED <<gw, habitVars, serial, now, users, sessions, userSessions, sessionRows,
                      verificationTokens, passwordResetTokens, ahist>>

\* DeactivateUser: userRepo.Delete,
\* UPDATE users SET is_active = false WHERE id = $1
DeactivateUser(w, u) ==
    LET call == AuthCall("deactivate", u)
    IN /\ aw[w].pc = "idle" /\ AuthMayStep(w)
       /\ IF users[u].rows = 0
          THEN /\ aw' = [aw EXCEPT ![w] = AuthResult(call, "UserNotFound")]
               /\ UNCHANGED users
          ELSE /\ users' = [users EXCEPT ![u].isActive = FALSE]
               /\ aw' = [aw EXCEPT ![w] = AuthResult(call, "ok")]
       /\ UNCHANGED <<gw, habitVars, serial, now, sessions, userSessions, sessionRows,
                      verificationTokens, passwordResetTokens, tokens, ahist>>

\* the gRPC handlers: the status code each returns for the service's result
RegisterStatus(res) == IF res # "ok" THEN "Internal" ELSE "OK"
LogoutStatus(res) == IF res # "ok" THEN "Internal" ELSE "OK"

\* a ForgotPassword handler that passes the service's error on
RevealingForgotResponse(res) ==
    IF res # "ok"
    THEN [success |-> FALSE, message |-> res]
    ELSE [success |-> TRUE, message |-> "If the email exists, a password reset link has been sent"]

\* the ForgotPassword handler answers the same whether the service failed or not
ForgotPasswordResponse(res) ==
    IF res # "ok"
    THEN [success |-> TRUE, message |-> "If the email exists, a password reset link has been sent"]
    ELSE [success |-> TRUE, message |-> "If the email exists, a password reset link has been sent"]

ForgotPassword(w, u, fault) ==
    LET call == AuthCall("forgot", u)
        got == GetUserByEmail(u)
        token == Fresh(ResetTokenIDs)
    IN /\ aw[w].pc = "idle" /\ AuthMayStep(w)
       /\ HasFresh(ResetTokenIDs)
       /\ IF ~IsSome(got)
          THEN /\ aw' = [aw EXCEPT ![w] = AuthResult(call, "ok")]
               /\ UNCHANGED <<passwordResetTokens, ahist>>
          ELSE IF fault = "store"
          THEN /\ aw' = [aw EXCEPT ![w] = AuthResult(call, "StoreFailed")]
               /\ ahist' = [ahist EXCEPT !.alloc = @ \cup {token}]
               /\ UNCHANGED passwordResetTokens
          ELSE /\ passwordResetTokens' = Put(passwordResetTokens, token,
                      [value |-> FormatTokenData(u, EmailText(u)),
                       exp |-> now + passwordResetTokenTTL])
               /\ ahist' = [ahist EXCEPT !.alloc = @ \cup {token},
                                         !.unpublished = @ \/ fault = "publish"]
               /\ aw' = [aw EXCEPT ![w] = AuthResult([call EXCEPT !.tok = Some(token)], "ok")]
       /\ UNCHANGED <<gw, habitVars, serial, now, users, sessions, userSessions, sessionRows,
                      verificationTokens, tokens>>

\* ResetPassword: GetTokenData, GetUserByID, UpdatePassword, DeleteToken,
\* RevokeAllSessions
ResetPassword(w, token, newPassword) ==
    LET data == GetTokenData(token)
        userID == ParseUserID(data.uid)
        stored == KeyLive(passwordResetTokens, token)
        owner == IF stored
                 THEN {u \in UserIDs : passwordResetTokens[token].value
                                           = FormatTokenData(u, EmailText(u))}
                 ELSE {}
        call == [AuthCall("reset", "u1") EXCEPT
                    !.tok = Some(token), !.valid = stored,
                    !.pre = UNION {SessionGetByUserID(u) : u \in owner}]
    IN /\ aw[w].pc = "idle" /\ AuthMayStep(w)
       /\ IF ~data.ok
          THEN /\ aw' = [aw EXCEPT ![w] = AuthResult(call, "InvalidToken")]
               /\ UNCHANGED <<users, sessions, userSessions, sessionRows,
                              passwordResetTokens, ahist>>
          ELSE IF ~IsSome(userID)
          THEN /\ aw' = [aw EXCEPT ![w] = AuthResult(call, "InvalidUserID")]
               /\ UNCHANGED <<users, sessions, userSessions, sessionRows,
                              passwordResetTokens, ahist>>
          ELSE IF ~IsSome(GetUserByID(Val(userID)))
          THEN /\ aw' = [aw EXCEPT ![w] = AuthResult(call, "UserNotFound")]
               /\ UNCHANGED <<users, sessions, userSessions, sessionRows,
                              passwordResetTokens, ahist>>
          ELSE /\ users' = [users EXCEPT ![Val(userID)].passwordHash =
                                             HashPassword(newPassword)]
               /\ passwordResetTokens' = Drop(passwordResetTokens, {token})
               /\ sessions' = SessionDeleteByUserIDKeys(Val(userID))
               /\ userSessions' = SessionDeleteByUserIDMembers(Val(userID))
               /\ sessionRows' = MirrorDeleteByUserID(Val(userID))
               /\ ahist' = Consume(token)
               /\ aw' = [aw EXCEPT ![w] = AuthResult([call EXCEPT !.user = Val(userID)], "ok")]
       /\ UNCHANGED <<gw, habitVars, serial, now, verificationTokens, tokens>>

\* the instants the clock of the session core stops at: inside and past the
\* lifetimes of an access token, a reset token and a verification token
AuthInstants ==
    { ClockStart + d : d \in {30 * 60, 2 * Hour, 25 * Hour} }

AuthAdvanceTime ==
    /\ serial => \A w \in Workers : aw[w].pc = "idle"
    /\ \E t \in AuthInstants : t > now /\ now' = t
    /\ UNCHANGED <<gw, habitVars, serial, authVars>>

----------------------------------------------------------------------------
(* api-gateway: the rate limiter, its map guarded by one mutex *)

\* middleware.RateLimit(60)
RequestsPerMinute == 60

ClientIPs == {"ip1"}

\* the requests of ip passed on to the next handler in the last minute
RECURSIVE SumOver(_, _)
SumOver(f, keys) ==
    IF keys = {} THEN 0
    ELSE LET k == CHOOSE x \in keys : TRUE IN f[k] + SumOver(f, keys \ {k})

LastMinute(log, t) == [x \in {y \in DOMAIN log : y > t - 60} |-> log[x]]

Admit(ip) ==
    LET log == IF ip \in DOMAIN gw.admitted THEN gw.admitted[ip] ELSE <<>>
        n == IF now \in DOMAIN log THEN log[now] ELSE 0
    IN Put(gw.admitted, ip, LastMinute(Put(log, now, n + 1), now))

\* the handler of RateLimit between mu.Lock and mu.Unlock
RateLimit(ip) ==
    LET exists == ip \in DOMAIN gw.visitors
        v == gw.visitors[ip]
    IN /\ IF ~exists
          THEN gw' = [visitors |-> Put(gw.visitors, ip, [lastSeen |-> now, count |-> 1]),
                      admitted |-> Admit(ip)]
          ELSE IF now - v.lastSeen > 60
          THEN gw' = [visitors |-> Put(gw.visitors, ip, [lastSeen |-> now, count |-> 1]),
                      admitted |-> Admit(ip)]
          ELSE IF v.count >= RequestsPerMinute
          THEN UNCHANGED gw
          ELSE gw' = [visitors |-> Put(gw.visitors, ip, [v EXCEPT !.count = @ + 1]),
                      admitted |-> Admit(ip)]
       /\ UNCHANGED <<serial, now, habitVars, users, sessions, userSessions, sessionRows,
                      verificationTokens, passwordResetTokens, tokens, aw, ahist>>

\* CleanupVisitors: a tick of its ticker
CleanupVisitors ==
    /\ gw' = [gw EXCEPT !.visitors =
                  Drop(gw.visitors, {ip \in DOMAIN gw.visitors :
                                        now - gw.visitors[ip].lastSeen > 5 * 60})]
    /\ UNCHANGED <<serial, now, habitVars, users, sessions, userSessions, sessionRows,
                   verificationTokens, passwordResetTokens, tokens, aw, ahist>>

\* half a minute passes
GatewayAdvance ==
    /\ now < ClockStart + GatewayTicks * 30
    /\ now' = now + 30
    /\ gw' = [gw EXCEPT !.admitted =
                  [ip \in DOMAIN gw.admitted |-> LastMinute(gw.admitted[ip], now + 30)]]
    /\ UNCHANGED <<serial, habitVars, users, sessions, userSessions, sessionRows,
                   verificationTokens, passwordResetTokens, tokens, aw, ahist>>

----------------------------------------------------------------------------
(* Specifications of the streak engine *)

HistInit ==
    [okLog |-> {}, dup |-> FALSE, aCleared |-> {}, bLog |-> <<>>, bPre |-> None,
     bT |-> 0, prevTick |-> None, crashed |-> FALSE, afterCrash |-> FALSE,
     crashDue |-> {}]

\* the stores as the services find them when they start
StoresInit ==
    /\ now = ClockStart
    /\ habits = <<>>
    /\ confirmations = {}
    /\ wk = [w \in Workers |-> IdleWorker]
    /\ sw = IdleSweeper
    /\ hist = HistInit
    /\ users = [u \in UserIDs |-> NoUser]
    /\ sessions = <<>>
    /\ userSessions = [u \in UserIDs |-> {}]
    /\ sessionRows = {}
    /\ verificationTokens = <<>>
    /\ passwordResetTokens = <<>>
    /\ tokens = {}
    /\ aw = [w \in Workers |-> IdleAuth]
    /\ ahist = [alloc |-> {}, loggedOut |-> {}, consumed |-> {}, reused |-> FALSE,
                refused |-> {}, unpublished |-> FALSE]
    /\ gw = [visitors |-> <<>>, admitted |-> <<>>]

HabitInit == serial = TRUE /\ StoresInit

HabitNext ==
    \/ \E w \in Workers, u \in Owners, in \in CreateInputs, z \in Zones :
           CreateHabit(w, u, in, z)
    \/ \E w \in Workers, h \in HabitIDs, u \in UserIDs : ConfirmLoad(w, h, u)
    \/ \E w \in Workers : ConfirmExists(w)
    \/ \E w \in Workers : ConfirmInsert(w)
    \/ \E w \in Workers : ConfirmUpdate(w)
    \/ \E w \in Workers, h \in HabitIDs, u \in UserIDs : DeleteLoad(w, h, u)
    \/ \E w \in Workers : DeleteWrite(w)
    \/ \E w \in Workers, h \in HabitIDs, u \in UserIDs, in \in UpdateInputs :
           UpdateLoad(w, h, u, in)
    \/ \E w \in Workers : UpdateWrite(w)
    \/ \E w \in Workers : Return(w)
    \/ SweepASelect
    \/ SweepAEach
    \/ SweepAEnd
    \/ SweepCrash
    \/ SweepBSelect
    \/ SweepBEach
    \/ SweepBEnd
    \/ SweepReturn
    \/ AdvanceTime

\* handlers run one at a time
HabitSpec == HabitInit /\ [][HabitNext]_vars

\* a daily habit in UTC, for the runs in which the steps of handlers interleave
DailyInput == [scheduleType |-> "interval", intervalDays |-> Some(1), weeklyDays |-> <<>>]

HabitConcNext ==
    \/ \E w \in Workers, u \in Owners : CreateHabit(w, u, DailyInput, 0)
    \/ \E w \in Workers, h \in HabitIDs, u \in Owners : ConfirmLoad(w, h, u)
    \/ \E w \in Workers : ConfirmExists(w)
    \/ \E w \in Workers : ConfirmInsert(w)
    \/ \E w \in Workers : ConfirmUpdate(w)
    \/ \E w \in Workers : Return(w)
    \/ SweepASelect
    \/ SweepAEach
    \/ SweepAEnd
    \/ SweepBSelect
    \/ SweepBEach
    \/ SweepBEnd
    \/ SweepReturn
    \/ AdvanceTime

\* the edits of a daily habit between confirmations and sweeper ticks, one
\* handler at a time
HabitEditNext ==
    \/ \E w \in Workers, u \in Owners, z \in Zones : CreateHabit(w, u, DailyInput, z)
    \/ \E w \in Workers, h \in HabitIDs, u \in Owners : ConfirmLoad(w, h, u)
    \/ \E w \in Workers : ConfirmExists(w)
    \/ \E w \in Workers : ConfirmInsert(w)
    \/ \E w \in Workers : ConfirmUpdate(w)
    \/ \E w \in Workers, h \in HabitIDs, u \in Owners, in \in EditInputs :
           UpdateLoad(w, h, u, in)
    \/ \E w \in Workers : UpdateWrite(w)
    \/ \E w \in Workers : Return(w)
    \/ SweepASelect
    \/ SweepAEach
    \/ SweepAEnd
    \/ SweepBSelect
    \/ SweepBEach
    \/ SweepBEnd
    \/ SweepReturn
    \/ AdvanceTime

HabitEditSpec == HabitInit /\ [][HabitEditNext]_vars

\* the steps of handlers interleave
HabitConcInit == serial = FALSE /\ StoresInit

HabitConcSpec == HabitConcInit /\ [][HabitConcNext]_vars

\* the handlers that are under way go on to their response
HandlerStep ==
    \E w \in Workers :
        ConfirmExists(w) \/ ConfirmInsert(w) \/ ConfirmUpdate(w) \/ Return(w)

\* cron goes on starting checkDeadlines, and a run goes on to its end
SweepStep ==
    \/ SweepASelect \/ SweepAEach \/ SweepAEnd
    \/ SweepBSelect \/ SweepBEach \/ SweepBEnd \/ SweepReturn

\* a daily habit, its confirmations and the ticks of the sweeper, the clock
\* passing a day with or without a tick in it
SweepLiveNext ==
    \/ \E u \in Owners, z \in Zones : CreateHabit("w1", u, DailyInput, z)
    \/ \E h \in HabitIDs, u \in Owners : ConfirmLoad("w1", h, u)
    \/ ConfirmExists("w1")
    \/ ConfirmInsert("w1")
    \/ ConfirmUpdate("w1")
    \/ Return("w1")
    \/ SweepASelect
    \/ SweepAEach
    \/ SweepAEnd
    \/ SweepBSelect
    \/ SweepBEach
    \/ SweepBEnd
    \/ SweepReturn
    \/ AdvanceTime

\* the ticks keep occurring
SweepLiveSpec ==
    HabitInit /\ [][SweepLiveNext]_vars /\ WF_vars(HandlerStep) /\ SF_vars(SweepStep)

\* the confirmations of a daily habit, the update of the habit's row failing
\* or not
ConfirmFaultNext ==
    \/ \E u \in Owners, z \in Zones : CreateHabit("w1", u, DailyInput, z)
    \/ \E h \in HabitIDs, u \in Owners : ConfirmLoad("w1", h, u)
    \/ ConfirmExists("w1")
    \/ ConfirmInsert("w1")
    \/ ConfirmUpdate("w1")
    \/ ConfirmUpdateFails("w1")
    \/ Return("w1")
    \/ SweepASelect
    \/ SweepAEach
    \/ SweepAEnd
    \/ SweepBSelect
    \/ SweepBEach
    \/ SweepBEnd
    \/ SweepReturn
    \/ AdvanceTime

ConfirmFaultSpec == HabitInit /\ [][ConfirmFaultNext]_vars

\* the runs of the deadline checker as cron starts them, a run taking longer
\* than the check interval
SweepOverlapNext ==
    \/ \E u \in Owners, in \in CreateInputs : CreateHabit("w1", u, in, 0)
    \/ Return("w1")
    \/ SweepASelect
    \/ SweepAEach
    \/ SweepAEnd
    \/ SweepBSelect
    \/ SweepBEach
    \/ SweepBEnd
    \/ SweepReturn
    \/ SweepSlow
    \/ SweepOverlap
    \/ LateAEach
    \/ LateBSelect
    \/ LateBEach
    \/ LateReturn
    \/ AdvanceTime

SweepOverlapSpec == HabitConcInit /\ [][SweepOverlapNext]_vars

----------------------------------------------------------------------------
(* Specification of the session core *)

AuthInit == serial = TRUE /\ StoresInit

AuthNext ==
    \/ \E w \in Workers, u \in Registrants : Register(w, u)
    \/ \E w \in Workers : RegisterInsert(w)
    \/ \E w \in Workers : RegisterToken(w, "none")
    \/ \E w \in Workers, u \in Registrants : ResendVerificationEmail(w, u, "none")
    \/ \E w \in Workers, t \in VerificationTokenIDs : VerifyGet(w, t)
    \/ \E w \in Workers : VerifyUpdate(w)
    \/ \E w \in Workers : VerifyDelete(w)
    \/ \E w \in Workers, u \in UserIDs, p \in Passwords : Login(w, u, p, "none")
    \/ \E w \in Workers, u \in UserIDs, sid \in SessionIDs : LogoutGet(w, u, sid)
    \/ \E w \in Workers : LogoutDelete(w)
    \/ \E w \in Workers, tok \in tokens : ValidateExists(w, tok)
    \/ \E w \in Workers : ValidateGet(w)
    \/ \E w \in Workers : ValidateSet(w)
    \/ \E w \in Workers, u \in UserIDs : ForgotPassword(w, u, "none")
    \/ \E w \in Workers, t \in ResetTokenIDs, p \in Passwords : ResetPassword(w, t, p)
    \/ \E w \in Workers : AuthReturn(w)
    \/ AuthAdvanceTime

\* handlers run one at a time
AuthSpec == AuthInit /\ [][AuthNext]_vars

\* the session handlers with token refresh and account deactivation, one at a
\* time
SessionNext ==
    \/ \E w \in Workers, u \in Registrants : Register(w, u)
    \/ \E w \in Workers : RegisterInsert(w)
    \/ \E w \in Workers : RegisterToken(w, "none")
    \/ \E w \in Workers, t \in VerificationTokenIDs : VerifyGet(w, t)
    \/ \E w \in Workers : VerifyUpdate(w)
    \/ \E w \in Workers : VerifyDelete(w)
    \/ \E w \in Workers, u \in UserIDs, p \in Passwords : Login(w, u, p, "none")
    \/ \E w \in Workers, tok \in tokens : RefreshToken(w, tok)
    \/ \E w \in Workers, tok \in tokens : ValidateExists(w, tok)
    \/ \E w \in Workers : ValidateGet(w)
    \/ \E w \in Workers : ValidateSet(w)
    \/ \E w \in Workers, u \in UserIDs, sid \in SessionIDs : LogoutGet(w, u, sid)
    \/ \E w \in Workers : LogoutDelete(w)
    \/ \E w \in Workers, u \in UserIDs : DeactivateUser(w, u)
    \/ \E w \in Workers : AuthReturn(w)
    \/ AuthAdvanceTime

SessionSpec == AuthInit /\ [][SessionNext]_vars

\* the handlers with the failures of a step as an input: "store" the token
\* store, "publish" the event publish, "mirror" the insert of the session row;
\* one handler at a time
AuthFaultNext ==
    \/ \E w \in Workers, u \in Registrants : Register(w, u)
    \/ \E w \in Workers : RegisterInsert(w)
    \/ \E w \in Workers, f \in {"none", "publish"} : RegisterToken(w, f)
    \/ \E w \in Workers, u \in Registrants, f \in {"none", "publish"} :
           ResendVerificationEmail(w, u, f)
    \/ \E w \in Workers, t \in VerificationTokenIDs : VerifyGet(w, t)
    \/ \E w \in Workers : VerifyUpdate(w)
    \/ \E w \in Workers : VerifyDelete(w)
    \/ \E w \in Workers, u \in UserIDs, p \in Passwords, f \in {"none", "mirror"} :
           Login(w, u, p, f)
    \/ \E w \in Workers, u \in UserIDs, sid \in SessionIDs : LogoutGet(w, u, sid)
    \/ \E w \in Workers : LogoutDelete(w)
    \/ \E w \in Workers, u \in UserIDs, f \in {"none", "store", "publish"} : ForgotPassword(w, u, f)
    \/ \E w \in Workers : AuthReturn(w)
    \/ AuthAdvanceTime

AuthFaultSpec == AuthInit /\ [][AuthFaultNext]_vars

\* the steps of the single-use token handlers interleave; ResetPassword stays
\* one step, its first store call being the one that fails
AuthConcInit == serial = FALSE /\ StoresInit

AuthConcNext ==
    \/ \E w \in Workers, u \in Registrants : Register(w, u)
    \/ \E w \in Workers : RegisterInsert(w)
    \/ \E w \in Workers : RegisterToken(w, "none")
    \/ \E w \in Workers, t \in VerificationTokenIDs : VerifyGet(w, t)
    \/ \E w \in Workers : VerifyUpdate(w)
    \/ \E w \in Workers : VerifyDelete(w)
    \/ \E w \in Workers, u \in Registrants : ForgotPassword(w, u, "none")
    \/ \E w \in Workers, t \in ResetTokenIDs, p \in Passwords : ResetPassword(w, t, p)
    \/ \E w \in Workers : AuthReturn(w)
    \/ AuthAdvanceTime

AuthConcSpec == AuthConcInit /\ [][AuthConcNext]_vars

\* the steps of the session handlers interleave
SessionConcNext ==
    \/ \E u \in Registrants : Register("w1", u)
    \/ RegisterInsert("w1")
    \/ RegisterToken("w1", "none")
    \/ \E t \in VerificationTokenIDs : VerifyGet("w1", t)
    \/ VerifyUpdate("w1")
    \/ VerifyDelete("w1")
    \/ \E w \in Workers, u \in Registrants : Login(w, u, "p1", "none")
    \/ \E w \in Workers, tok \in tokens : ValidateExists(w, tok)
    \/ \E w \in Workers : ValidateGet(w)
    \/ \E w \in Workers : ValidateSet(w)
    \/ \E w \in Workers, u \in Registrants, sid \in SessionIDs : LogoutGet(w, u, sid)
    \/ \E w \in Workers : LogoutDelete(w)
    \/ \E w \in Workers, u \in Registrants : RevokeAllList(w, u)
    \/ \E w \in Workers : RevokeAllEach(w)
    \/ \E w \in Workers : RevokeAllDeleteSet(w)
    \/ \E w \in Workers : AuthReturn(w)

SessionConcSpec == AuthConcInit /\ [][SessionConcNext]_vars

----------------------------------------------------------------------------
(* Specification of the gateway *)

GatewayNext ==
    \/ \E ip \in ClientIPs : RateLimit(ip)
    \/ CleanupVisitors
    \/ GatewayAdvance

GatewaySpec == HabitConcInit /\ [][GatewayNext]_vars

----------------------------------------------------------------------------
(* Properties of the streak engine *)

Count(seq, x) == Cardinality({k \in DOMAIN seq : seq[k] = x})

RowsFor(habitID, date) ==
    {c \in confirmations : c.habitID = habitID /\ c.date = date}

\* C1: for every habit and local date, at most one confirm call issued on
\* that date succeeds, whatever confirm calls and sweeper ticks interleave
C1_OneConfirmationPerDay == hist.dup = FALSE

\* a confirm call was rejected for a date on which another one had succeeded
C1_Witness ==
    \E w \in Workers :
        /\ wk[w].pc = "ret" /\ wk[w].op = "confirm" /\ wk[w].res # "ok"
        /\ IsSome(wk[w].date)
        /\ <<wk[w].hid, Val(wk[w].date)>> \in hist.okLog

\* two confirm calls for one habit and one local date that both found the
\* habit unconfirmed and without a row for that date
RacingConfirms(w, v) ==
    /\ w # v
    /\ wk[w].pc = "ret" /\ wk[v].pc = "ret"
    /\ wk[w].op = "confirm" /\ wk[v].op = "confirm"
    /\ wk[w].hid = wk[v].hid
    /\ IsSome(wk[w].date) /\ wk[w].date = wk[v].date
    /\ wk[w].fresh /\ wk[v].fresh

\* C2: of two concurrent confirm calls for the same habit on the same local
\* date exactly one succeeds, the other returns AlreadyConfirmed, and exactly
\* one confirmation row for that habit and date exists afterwards
C2_ConcurrentConfirms ==
    \A w, v \in Workers :
        RacingConfirms(w, v) =>
            /\ {wk[w].res, wk[v].res} = {"ok", "AlreadyConfirmed"}
            /\ Cardinality(RowsFor(wk[w].hid, Val(wk[w].date))) = 1

\* C3: a confirm call that returns success leaves the stored streak exactly
\* one greater than the stored streak before the call
C3_StreakPlusOne ==
    [][\A w \in Workers :
          (wk[w].pc = "c_update" /\ wk'[w].pc = "ret" /\ wk'[w].res = "ok") =>
              /\ habits'[wk[w].hid].streak = habits[wk[w].hid].streak + 1
              /\ habits[wk[w].hid].streak = wk[w].pre]_vars

\* a confirm call has succeeded on a habit that already had a streak
C3_Witness ==
    \E w \in Workers :
        /\ wk[w].pc = "ret" /\ wk[w].op = "confirm" /\ wk[w].res = "ok"
        /\ wk[w].pre >= 1
        /\ habits[wk[w].hid].streak = wk[w].pre + 1

\* C4: an active habit with flag false whose deadline is not after the
\* instant t of a sweeper tick has streak 0 and a deadline after t when the
\* tick is over
C4_DemotionOnMiss ==
    (sw.pc = "done" /\ IsSome(hist.bPre)) =>
        \A i \in DOMAIN Val(hist.bPre) :
            DueForDemotion(Val(hist.bPre)[i], hist.bT) =>
                /\ habits[i].streak = 0
                /\ habits[i].nextDeadline > hist.bT

\* a tick is over that met a habit with a streak exactly at its deadline
C4_Witness ==
    /\ sw.pc = "done" /\ IsSome(hist.bPre)
    /\ \E i \in DOMAIN Val(hist.bPre) :
           /\ DueForDemotion(Val(hist.bPre)[i], hist.bT)
           /\ Val(hist.bPre)[i].streak >= 1
           /\ Val(hist.bPre)[i].nextDeadline = hist.bT

\* what the claims compare of a stored habit
StreakState(row) == <<row.streak, row.nextDeadline, row.confirmed>>

\* C5: a second sweeper tick right after a complete one, with no request and
\* no passing of time in between, leaves streak, deadline and flag of every
\* habit as the first tick left them
C5_IdempotentSweeper ==
    (sw.pc = "done" /\ IsSome(hist.prevTick)) =>
        /\ DOMAIN habits = DOMAIN Val(hist.prevTick)
        /\ \A i \in DOMAIN habits :
               StreakState(habits[i]) = StreakState(Val(hist.prevTick)[i])

\* the second of two ticks is over, the first of which had demoted a habit
C5_Witness ==
    /\ sw.pc = "done" /\ IsSome(hist.prevTick)
    /\ \E i \in DOMAIN habits :
           /\ habits[i].streak = 0 /\ ~habits[i].confirmed
           /\ habits[i].lastConfirmedAt = Some(now)
           /\ habits[i].nextDeadline > now

\* C6: a habit whose flag Pass A has cleared is not demoted by Pass B of the
\* same tick
C6_ClearedNotDemoted ==
    \A i \in hist.aCleared : Count(hist.bLog, i) = 0

\* C7: after a tick that stopped between the passes the stored habits satisfy
\* the constraints of their table, and when the next complete tick is over
\* every habit that was due for demotion has been demoted exactly once and
\* the streak of every other habit is as it was
C7_CrashBetweenPasses ==
    /\ hist.crashed => \A i \in DOMAIN habits : HabitRowChecks(habits[i])
    /\ (sw.pc = "done" /\ hist.afterCrash) =>
           /\ \A i \in hist.crashDue :
                  habits[i].streak = 0 /\ Count(hist.bLog, i) = 1
           /\ \A i \in DOMAIN habits :
                  ~DueForDemotion(Val(hist.bPre)[i], hist.bT) =>
                      /\ habits[i].streak = Val(hist.bPre)[i].streak
                      /\ Count(hist.bLog, i) = 0

\* the tick after a stopped one is over and has demoted a habit with a streak
C7_Witness ==
    /\ sw.pc = "done" /\ hist.afterCrash
    /\ \E i \in hist.crashDue :
           Val(hist.bPre)[i].streak >= 1 /\ habits[i].streak = 0

----------------------------------------------------------------------------
(* Properties of the session core *)

\* C8: once logout of a session has succeeded, validate_access fails for
\* every access token bound to that session, unexpired and signed or not
C8_LoggedOutSessionRejected ==
    /\ \A s \in ahist.loggedOut : ~SessionExists(s)
    /\ \A w \in Workers :
           (aw[w].op = "validate" /\ aw[w].sid \in ahist.loggedOut) =>
               aw[w].pc = "ret" /\ aw[w].res # "ok"

\* an unexpired access token of a logged-out session has been rejected
C8_Witness ==
    \E w \in Workers :
        /\ aw[w].pc = "ret" /\ aw[w].op = "validate"
        /\ aw[w].res = "SessionNotFound"
        /\ aw[w].sid \in ahist.loggedOut
        /\ ValidateAccessToken(Val(aw[w].tok))

C10_SingleUseTokens == ahist.reused = FALSE

\* C11: of two concurrent calls that present the same stored, unexpired
\* single-use token (two verify_email calls or two reset_password calls) at
\* most one succeeds
C11_AtomicConsumption ==
    \A w, v \in Workers :
        ( /\ w # v
          /\ aw[w].pc = "ret" /\ aw[v].pc = "ret"
          /\ aw[w].op \in {"verify", "reset"} /\ aw[w].op = aw[v].op
          /\ aw[w].tok = aw[v].tok
          /\ aw[w].valid /\ aw[v].valid ) =>
            ~(aw[w].res = "ok" /\ aw[v].res = "ok")

\* the user a stored reset token was issued to
TokenOwner(token) ==
    {u \in UserIDs : passwordResetTokens[token].value = FormatTokenData(u, EmailText(u))}

\* C12: reset_password with the token forgot_password issued to an existing
\* active user, presented for the first time within its hour, succeeds, and
\* afterwards the new password authenticates and no other one does
C12_ForgotThenReset ==
    [][\A w \in Workers, t \in ResetTokenIDs, p \in Passwords :
          ( /\ ResetPassword(w, t, p)
            /\ KeyLive(passwordResetTokens, t)
            /\ t \notin ahist.consumed
            /\ \E u \in TokenOwner(t) : IsSome(GetUserByID(u)) ) =>
              /\ aw'[w].res = "ok"
              /\ \A u \in TokenOwner(t) :
                     /\ users'[u].passwordHash = HashPassword(p)
                     /\ \A q \in Passwords \ {p} :
                            users'[u].passwordHash # HashPassword(q)]_vars

----------------------------------------------------------------------------
(* Properties of the stored habits *)

\* an update call has just returned success
Updated(w) == wk[w].pc = "ret" /\ wk[w].op = "update" /\ wk[w].res = "ok"

\* C14: when update_habit has changed the schedule type, the weekly days, the
\* interval or the timezone, the stored habit has the deadline recomputed
\* from the instant of the update under the new schedule and offset, and its
\* flag is false
C14_UpdateRecomputes ==
    \A w \in Workers :
        Updated(w) =>
            /\ habits[wk[w].hid].nextDeadline
                   = CalculateNextDeadline(habits[wk[w].hid], now)
            /\ ~habits[wk[w].hid].confirmed

\* no habit with this id, or one of another user, or a soft-deleted one
Missing(habitID, userID) ==
    \/ habitID \notin DOMAIN habits
    \/ habits[habitID].userID # userID
    \/ ~habits[habitID].isActive

\* C15: confirm on a habit that is absent, owned by another user or
\* soft-deleted returns NotFound, inserts no confirmation row and leaves the
\* stored habits as they are
C15_ConfirmNotFound ==
    [][\A w \in Workers, h \in HabitIDs, u \in UserIDs :
          /\ (ConfirmLoad(w, h, u) /\ Missing(h, u)) =>
                 wk'[w].pc = "ret" /\ wk'[w].res = "NotFound"
          /\ ( /\ wk[w].op = "confirm" /\ wk[w].pc # "ret"
               /\ wk[w].hid = h /\ wk[w].uid = u /\ Missing(h, u) ) =>
                 habits' = habits /\ confirmations' = confirmations]_vars

\* C16: once delete has succeeded the habit is left alone: no update and no
\* confirm changes its row or adds a confirmation row for it, and no pass of
\* the sweeper selects it
C16_DeletedExcluded ==
    [][\A i \in DOMAIN habits :
          ~habits[i].isActive =>
              /\ habits'[i] = habits[i]
              /\ {c \in confirmations' : c.habitID = i}
                     = {c \in confirmations : c.habitID = i}
              /\ \A k \in DOMAIN sw'.list : sw'.list[k].id # i]_vars

\* last_confirmed_at is set and falls, in the habit's local zone, on a date
\* before the date of the stored deadline: the period the flag marks as done
ConfirmedInPeriod(row) ==
    /\ IsSome(row.lastConfirmedAt)
    /\ DayNumber(GetLocalTime(row, Val(row.lastConfirmedAt)))
           < DayNumber(GetLocalTime(row, row.nextDeadline))

\* C17 as stated: in every stored habit state a true flag implies that
\* last_confirmed_at is set and lies in the current period
C17_FlagImpliesConfirmed ==
    \A i \in DOMAIN habits : habits[i].confirmed => ConfirmedInPeriod(habits[i])

\* C17 amended: a true flag implies that last_confirmed_at is set and lies in
\* the current period, or that the habit is a weekly one that has never been
\* confirmed or demoted (created with the flag true on a day outside its set)
C17_FlagImpliesConfirmedOrCreated ==
    \A i \in DOMAIN habits :
        habits[i].confirmed =>
            \/ ConfirmedInPeriod(habits[i])
            \/ /\ IsWeekly(habits[i]) /\ habits[i].lastConfirmedAt = None
               /\ habits[i].streak = 0

\* an update has succeeded on a habit that carries a confirmation and a streak
C17_Witness ==
    \E i \in DOMAIN habits :
        /\ habits[i].confirmed /\ habits[i].streak >= 1
        /\ IsSome(habits[i].lastConfirmedAt)
        /\ \E w \in Workers : Updated(w) /\ wk[w].hid = i

\* C18: in every stored habit state next_deadline_utc, shifted by the stored
\* timezone_offset_hours, is 23:59:59 of a day
C18_DeadlineAtEndOfLocalDay ==
    \A i \in DOMAIN habits :
        GetLocalTime(habits[i], habits[i].nextDeadline) % Day = Day - 1

\* C19: in every stored habit state exactly one of interval_days and
\* weekly_days is populated and it is the one of the schedule tag:
\* interval_days >= 1 for interval, a non-empty weekly_days for weekly
C19_ScheduleMatchesTag ==
    \A i \in DOMAIN habits :
        LET h == habits[i]
        IN IF h.scheduleType = "interval"
           THEN /\ h.intervalDays # None /\ Val(h.intervalDays) >= 1
                /\ h.weeklyDays = <<>>
           ELSE /\ h.scheduleType = "weekly"
                /\ h.weeklyDays # <<>> /\ h.intervalDays = None

\* an update that asked for another schedule type has come back
C19_Witness ==
    \E w \in Workers :
        /\ wk[w].pc = "ret" /\ wk[w].op = "update"
        /\ IsSome(wk[w].habit)
        /\ Val(wk[w].habit).scheduleType # habits[wk[w].hid].scheduleType

\* C20: a habit just created has streak 0; an interval habit, and a weekly
\* habit created on a weekday of its set, has its deadline today and the flag
\* false; a weekly habit created on another weekday has its deadline on the
\* next date whose weekday is in the set and the flag true; today and the
\* weekdays are those of the zone the stored deadline is in
C20_NewHabit ==
    \A w \in Workers :
        (wk[w].pc = "ret" /\ wk[w].op = "create" /\ wk[w].res = "ok") =>
            LET h == habits[wk[w].hid]
                today == DayNumber(GetLocalTime(h, now))
                deadlineDay == DayNumber(GetLocalTime(h, h.nextDeadline))
                scheduled(d) == InDays(h.weeklyDays, (d + 4) % 7)
            IN /\ h.streak = 0
               /\ IF IsInterval(h) \/ scheduled(today)
                  THEN deadlineDay = today /\ ~h.confirmed
                  ELSE /\ deadlineDay > today /\ scheduled(deadlineDay)
                       /\ \A d \in (today + 1)..(deadlineDay - 1) : ~scheduled(d)
                       /\ h.confirmed

\* a confirm call has just returned success
Confirmed(w) == wk[w].pc = "ret" /\ wk[w].op = "confirm" /\ wk[w].res = "ok"

\* C21: after a successful confirm on the local date D the deadline date is
\* D + n for an interval(n) habit, and for a weekly(S) habit the smallest
\* date after D whose weekday is in S, at most D + 7
C21_NextDeadlineDate ==
    \A w \in Workers :
        Confirmed(w) =>
            LET h == habits[wk[w].hid]
                D == DayNumber(GetLocalTime(h, now))
                deadlineDay == DayNumber(GetLocalTime(h, h.nextDeadline))
                scheduled(d) == InDays(h.weeklyDays, (d + 4) % 7)
            IN /\ wk[w].date = Some(CivilFromDays(D))
               /\ IF IsInterval(h)
                  THEN deadlineDay = D + Val(h.intervalDays)
                  ELSE /\ deadlineDay > D /\ deadlineDay <= D + 7
                       /\ scheduled(deadlineDay)
                       /\ \A d \in (D + 1)..(deadlineDay - 1) : ~scheduled(d)

\* a weekly habit has been confirmed on a day of its set
C21_Witness ==
    \E w \in Workers :
        /\ Confirmed(w) /\ IsWeekly(habits[wk[w].hid])
        /\ InDays(habits[wk[w].hid].weeklyDays,
                  Weekday(GetLocalTime(habits[wk[w].hid], now)))

----------------------------------------------------------------------------
(* Properties of the sessions and of the failing steps *)

\* C22: the response of forgot_password is the one an unknown email gets,
\* whether the email belongs to a user or not and whether or not the token
\* store or the event publish failed for the existing user
C22_ForgotIndistinguishable ==
    \A w \in Workers :
        (aw[w].pc = "ret" /\ aw[w].op = "forgot") =>
            ForgotPasswordResponse(aw[w].res) = ForgotPasswordResponse("ok")

\* forgot_password has returned for an existing user whose token store failed,
\* after a publish had failed
C22_Witness ==
    \E w \in Workers :
        /\ aw[w].pc = "ret" /\ aw[w].op = "forgot"
        /\ IsSome(GetUserByEmail(aw[w].user))
        /\ aw[w].res = "StoreFailed"
        /\ ahist.unpublished

\* the handler has accepted the token it was given
Accepted(w) ==
    \/ aw[w].pc \in {"va_get", "va_set"}
    \/ aw[w].pc = "ret" /\ aw[w].res = "ok"

\* C23: validate_access accepts no refresh token and refresh accepts no access
\* token
C23_WrongValidatorRejects ==
    \A w \in Workers :
        /\ (aw[w].op = "validate" /\ Accepted(w)) => Val(aw[w].tok).type = "access"
        /\ (aw[w].op = "refresh" /\ Accepted(w)) => Val(aw[w].tok).type = "refresh"

\* refresh has rejected an unexpired access token whose session is live
C23_Witness ==
    \E w \in Workers :
        /\ aw[w].pc = "ret" /\ aw[w].op = "refresh" /\ aw[w].res = "InvalidToken"
        /\ Val(aw[w].tok).type = "access"
        /\ ValidateToken(Val(aw[w].tok))
        /\ SessionExists(aw[w].sid)

\* C24: the expires_at of every session in the cache is the expiry of the
\* refresh token most recently issued for that session
C24_SessionExpiry ==
    \A s \in DOMAIN sessions :
        LET issued == {t \in tokens : t.type = "refresh" /\ t.sessionID = s}
        IN SessionExists(s) =>
              /\ \A t \in issued : t.exp <= sessions[s].exp
              /\ \E t \in issued : t.exp = sessions[s].exp

\* C25: a refresh is accepted only if the session of its token is in the
\* cache; the tokens it issues name that session and the refresh creates no
\* session; a refresh token of a logged-out session is refused
C25_RefreshBoundToSession ==
    [][/\ \A w \in Workers, tok \in tokens :
            RefreshToken(w, tok) =>
                /\ IF aw'[w].pc = "va_get"
                   THEN /\ SessionExists(tok.sessionID)
                        /\ \A t \in tokens' \ tokens : t.sessionID = tok.sessionID
                   ELSE aw'[w].pc = "ret" /\ aw'[w].res # "ok" /\ tokens' = tokens
                /\ tok.sessionID \in ahist.loggedOut => aw'[w].pc = "ret"
                /\ sessions' = sessions
       /\ \A w \in Workers :
            (aw[w].op = "refresh" /\ aw[w].pc \in {"va_get", "va_set"}) =>
                DOMAIN sessions' = DOMAIN sessions]_vars

\* a refresh has issued a later pair of tokens for a live session, and a
\* refresh with a token of a logged-out session has been refused
C25_Witness ==
    /\ \E s \in DOMAIN sessions, t1, t2 \in tokens :
           /\ SessionExists(s)
           /\ t1.sessionID = s /\ t2.sessionID = s
           /\ t1.type = "refresh" /\ t2.type = "refresh" /\ t1.exp < t2.exp
    /\ \E w \in Workers :
           /\ aw[w].pc = "ret" /\ aw[w].op = "refresh" /\ aw[w].res = "SessionNotFound"
           /\ aw[w].sid \in ahist.loggedOut
           /\ ValidateRefreshToken(Val(aw[w].tok))

\* C26: no login succeeds for a user with is_active = false, and neither
\* validate_access nor refresh accepts a token of such a user
C26_DeactivatedCannotAuthenticate ==
    \A w \in Workers :
        /\ (aw[w].pc = "ret" /\ aw[w].op = "login" /\ aw[w].res = "ok") =>
               users[aw[w].user].isActive
        /\ (aw[w].op \in {"validate", "refresh"} /\ Accepted(w)) =>
               users[Val(aw[w].tok).userID].isActive

\* C27: a logout of a live session of another user is refused as
\* Unauthorized, answered with PermissionDenied, and leaves the session in the
\* cache and in the mirror
C27_CrossUserLogout ==
    [][\A w \in Workers, u \in UserIDs, sid \in SessionIDs :
          ( /\ LogoutGet(w, u, sid)
            /\ SessionExists(sid) /\ sessions[sid].userID # u ) =>
              /\ aw'[w].pc = "ret" /\ aw'[w].res = "Unauthorized"
              /\ LogoutStatus(aw'[w].res) = "PermissionDenied"
              /\ sessions' = sessions /\ sessionRows' = sessionRows]_vars

\* C28: a register with an email that belongs to a user is answered with
\* AlreadyExists and changes no user, also when the email was taken between
\* the check and the insert; no email has two user rows
C28_RegisterAlreadyExists ==
    [][/\ \A w \in Workers, u \in Registrants :
            (Register(w, u) /\ EmailExists(u)) =>
                /\ aw'[w].pc = "ret"
                /\ RegisterStatus(aw'[w].res) = "AlreadyExists"
                /\ users' = users
       /\ \A w \in Workers :
            (RegisterInsert(w) /\ EmailExists(aw[w].user)) =>
                /\ aw'[w].pc = "ret"
                /\ RegisterStatus(aw'[w].res) = "AlreadyExists"
                /\ users' = users
       /\ \A u \in UserIDs : users'[u].rows <= 1]_vars

\* C29: a login whose mirror insert fails succeeds with a live session, and
\* the logout of a live session by its owner returns success and removes
\* the session from the cache
C29_CacheGovernsLiveness ==
    [][/\ \A w \in Workers, u \in UserIDs, p \in Passwords :
            ( /\ Login(w, u, p, "mirror")
              /\ IsSome(GetUserByEmail(u)) /\ users[u].emailVerified
              /\ ComparePassword(users[u].passwordHash, p) ) =>
                /\ aw'[w].res = "ok"
                /\ aw'[w].sid \in DOMAIN sessions' \ DOMAIN sessions
                /\ sessions'[aw'[w].sid].exp > now
       /\ \A w \in Workers :
            (LogoutDelete(w) /\ SessionExists(aw[w].sid)) =>
                /\ aw'[w].res = "ok"
                /\ aw[w].sid \notin DOMAIN sessions']_vars

\* C30: register, resend_verification and forgot_password whose publish
\* fails return success and keep the token they stored
C30_PublishFailureIgnored ==
    [][/\ \A w \in Workers :
            RegisterToken(w, "publish") =>
                /\ aw'[w].res = "ok"
                /\ users'[aw[w].user].registered
                /\ Val(aw'[w].tok) \in DOMAIN verificationTokens'
       /\ \A w \in Workers, u \in Registrants :
            ( /\ ResendVerificationEmail(w, u, "publish")
              /\ IsSome(GetUserByEmail(u)) /\ ~users[u].emailVerified ) =>
                /\ aw'[w].res = "ok"
                /\ Val(aw'[w].tok) \in DOMAIN verificationTokens'
       /\ \A w \in Workers, u \in UserIDs :
            (ForgotPassword(w, u, "publish") /\ IsSome(GetUserByEmail(u))) =>
                /\ aw'[w].res = "ok"
                /\ Val(aw'[w].tok) \in DOMAIN passwordResetTokens']_vars

----------------------------------------------------------------------------
(* Properties of edits, of the sweeper's schedule and of interleaved steps *)

\* C31: an update_habit call that names no schedule and no timezone leaves
\* streak, next_deadline_utc, confirmed_for_current_period and
\* last_confirmed_at of the stored habit as they were before the call
C31_EditKeepsDeadlineState ==
    \A w \in Workers :
        (Updated(w) /\ ~wk[w].recalc) =>
            LET before == Val(wk[w].habit)
                h == habits[wk[w].hid]
            IN /\ h.streak = before.streak
               /\ h.nextDeadline = before.nextDeadline
               /\ h.confirmed = before.confirmed
               /\ h.lastConfirmedAt = before.lastConfirmedAt

\* a confirmed habit with a streak has been renamed
C31_Witness ==
    \E w \in Workers :
        /\ Updated(w) /\ ~wk[w].recalc
        /\ habits[wk[w].hid].name = "n2"
        /\ habits[wk[w].hid].streak >= 1
        /\ habits[wk[w].hid].confirmed
        /\ IsSome(habits[wk[w].hid].lastConfirmedAt)

\* C32: at most one run of the deadline checker is in progress at any time
C32_AtMostOneRun == ~(sw.pc # "idle" /\ sw.late.pc # "idle")

\* C33: no more requests of one client IP than the limit are passed on within
\* any one minute
C33_LimitPerMinute ==
    \A ip \in DOMAIN gw.admitted :
        SumOver(gw.admitted[ip], DOMAIN gw.admitted[ip]) <= RequestsPerMinute

\* C34: a session that a logout has removed from the cache stays absent
C34_NoWriteBack ==
    \A s \in ahist.loggedOut : s \notin DOMAIN sessions

\* C39: every session that is live in the cache is a member of the cached
\* session set of its owner
C39_LiveSessionInSet ==
    \A s \in DOMAIN sessions :
        SessionExists(s) => s \in userSessions[sessions[s].userID]

\* C35: when a confirm and Pass B of the sweeper act on one habit
\* concurrently, the stored result is that of a serial order of the two:
\* Pass B writes streak 0 and flag false only over the row as it read it (no
\* confirm has committed since), and a confirm writes a streak computed from
\* the stored one (the sweeper has not reset it since the confirm loaded it)
C35_ConfirmSweepSerializable ==
    [][/\ (sw.pc = "b_loop" /\ Len(sw.list) > 0 /\ sw'.list = Tail(sw.list)) =>
              LET habit == Head(sw.list)
              IN /\ habits[habit.id].confirmed = habit.row.confirmed
                 /\ habits[habit.id].streak = habit.row.streak
       /\ \A w \in Workers :
              (wk[w].pc = "c_update" /\ wk'[w].pc = "ret" /\ wk'[w].res = "ok") =>
                  ~(Val(wk[w].habit).streak > 0 /\ habits[wk[w].hid].streak = 0)]_vars

\* C36: the streak accumulated before a deadline that has elapsed with the
\* flag false is never extended: a confirm that arrives after the deadline
\* and before the next sweeper tick leaves streak 1
C36_ElapsedStreakNotExtended ==
    [][\A w \in Workers :
          (/\ wk[w].pc = "c_update" /\ wk'[w].pc = "ret" /\ wk'[w].res = "ok"
           /\ ~habits[wk[w].hid].confirmed
           /\ habits[wk[w].hid].nextDeadline < now) =>
              habits'[wk[w].hid].streak = 1]_vars

\* C37: the ticks of the sweeper occurring again and again, every active
\* habit whose next deadline lies in the past is eventually given a next
\* deadline in the future, whatever its flag
C37_ElapsedDeadlineRearmed ==
    \A i \in HabitIDs :
        (i \in DOMAIN habits /\ habits[i].isActive /\ habits[i].nextDeadline < now)
            ~> (i \in DOMAIN habits
                  /\ (~habits[i].isActive \/ habits[i].nextDeadline > now))

\* the same of the habits whose flag is false
UnconfirmedRearmed ==
    \A i \in HabitIDs :
        (/\ i \in DOMAIN habits /\ habits[i].isActive /\ ~habits[i].confirmed
         /\ habits[i].nextDeadline < now)
            ~> (i \in DOMAIN habits
                  /\ (~habits[i].isActive \/ habits[i].nextDeadline > now))

\* C38: confirm is all or nothing: a confirmation row for a habit and a date
\* exists only if the streak increment of that confirm was persisted (or the
\* call that inserted it is still under way), so that a failed confirm leaves
\* no row and can be tried again on the same day
C38_ConfirmAllOrNothing ==
    \A c \in confirmations :
        \/ <<c.habitID, c.date>> \in hist.okLog
        \/ \E w \in Workers :
               /\ wk[w].pc = "c_update" /\ wk[w].op = "confirm"
               /\ wk[w].hid = c.habitID /\ wk[w].date = Some(c.date)

\* C40: last_confirmed_at of a habit changes only as part of a successful
\* confirm of that habit: a demotion by Pass B and a reset of the flag by
\* Pass A leave it exactly as it was
C40_LastConfirmedOnlyByConfirm ==
    [][\A i \in DOMAIN habits :
          habits'[i].lastConfirmedAt # habits[i].lastConfirmedAt =>
              \E w \in Workers :
                  /\ wk[w].pc = "c_update" /\ wk[w].hid = i
                  /\ wk'[w].pc = "ret" /\ wk'[w].res = "ok"]_vars

============================================================================
